---------------------------- MODULE Spec2Model ----------------------------
(***************************************************************************)
(* A model of ART's thread pool (runtime/thread_pool.cc): the task queue,  *)
(* the worker roster, the admission counters, the two condition variables  *)
(* of task_queue_lock_, the worker fetch-execute loop, Wait, the creation  *)
(* barrier, and the teardown path DeleteThreads / RemoveAllTasks /         *)
(* ~ThreadPool; and of the Barrier as runtime/barrier_test.cc uses it.     *)
(*                                                                         *)
(* Every critical section of task_queue_lock_ is one action.  A thread     *)
(* blocked in ConditionVariable::Wait has pc "blocked"; Signal moves one   *)
(* blocked thread to "woken", Broadcast moves all of them; a woken thread  *)
(* re-acquires the lock in its next action.                                *)
(***************************************************************************)
EXTENDS Integers, Sequences, FiniteSets

\* ------------------------------------------------------------------ bounds
MaxThreads == 2
MaxTasks == 2
MaxCallers == 1
MaxParties == 3
MaxCount == 3
MaxRounds == 2

Workers == 1..MaxThreads
TaskIds == 1..MaxTasks
Callers == 1..MaxCallers
Parties == 1..MaxParties
NoTask == 0

VARIABLES
  tasks_,               \* std::deque<Task*> tasks_: the FIFO of queued task ids
  started_,             \* bool started_
  shutting_down_,       \* bool shutting_down_
  waiting_count_,       \* size_t waiting_count_
  max_active_workers_,  \* size_t max_active_workers_
  threads_,             \* std::vector<ThreadPoolWorker*> threads_: the roster
  creation_barier_,     \* the count of Barrier creation_barier_
  aborted,              \* a CHECK has failed: the process is gone
  wpc,                  \* per worker: where its thread is
  wtask,                \* per worker: the task it holds (local `task`)
  cpc,                  \* per caller of Wait: where it is
  ctask,                \* per caller of Wait: the task it holds
  csnap,                \* per caller of Wait: tasks submitted when Wait was called
  cdo_work,             \* per caller of Wait: the do_work argument
  life,                 \* the owning thread: idle / joining / removing / finalizing / destroyed
  in_dtor,              \* the owning thread is inside ~ThreadPool
  rtask,                \* the task RemoveAllTasks has popped and not yet finalized
  next_task,            \* id of the next task a submitter will pass to AddTask
  log,                  \* per task: the calls made on it, in order ("run" / "finalize")
  worker_ran,           \* the tasks the workers have run, in the order Run was called
  added_late,           \* the tasks passed to AddTask while shutting_down_ was set, until finalized
  crpc,                 \* per caller of WaitForWorkersToBeCreated: where it is
  count_,               \* int count_ of a Barrier used on its own
  bpc,                  \* per party of that Barrier: where it is
  btest,                \* how the parties use that Barrier
  bparam,               \* the number of parties, or of Pass calls, of that use
  pass_calls,           \* the calls of Pass made on it, counted in the use "CheckPass"
  timed_calls,          \* the timed Increment calls made on it since Init, counted in the use "Sleep"
  init_calls,           \* the Init calls that re-armed it since its construction
  create_peers_         \* const bool create_peers_

vars == <<tasks_, started_, shutting_down_, waiting_count_, max_active_workers_,
          threads_, creation_barier_, aborted, wpc, wtask, cpc, ctask, csnap,
          cdo_work, life, in_dtor, rtask, next_task, log, worker_ran,
          added_late, crpc, count_, bpc, btest, bparam, pass_calls, timed_calls, init_calls,
          create_peers_>>

poolVars == <<tasks_, started_, shutting_down_, waiting_count_, max_active_workers_>>
workerVars == <<wpc, wtask>>
callerVars == <<cpc, ctask, csnap, cdo_work>>
ownerVars == <<life, in_dtor, rtask>>
creationVars == <<crpc>>
barrierVars == <<count_, bpc, btest, bparam, pass_calls, timed_calls, init_calls>>

\* ----------------------------------------------------------------- helpers
Range(s) == {s[i] : i \in 1..Len(s)}

GetThreadCount == Cardinality(threads_)

HasOutstandingTasks == started_ /\ tasks_ # <<>>

IsShuttingDown == shutting_down_

\* TryGetTaskLocked taking the task from the back of the deque.
TryGetTaskLocked_Back ==
  IF HasOutstandingTasks
    THEN [task |-> tasks_[Len(tasks_)], queue |-> SubSeq(tasks_, 1, Len(tasks_) - 1)]
    ELSE [task |-> NoTask, queue |-> tasks_]

\* TryGetTaskLocked testing tasks_.empty() in place of HasOutstandingTasks().
TryGetTaskLocked_Unstarted ==
  IF tasks_ # <<>>
    THEN [task |-> Head(tasks_), queue |-> Tail(tasks_)]
    ELSE [task |-> NoTask, queue |-> tasks_]

\* TryGetTaskLocked returning tasks_.front() without pop_front().
TryGetTaskLocked_NoPop ==
  IF HasOutstandingTasks
    THEN [task |-> Head(tasks_), queue |-> tasks_]
    ELSE [task |-> NoTask, queue |-> tasks_]

\* ThreadPool::TryGetTaskLocked: the task it returns (NoTask for nullptr) and
\* the queue it leaves behind.
TryGetTaskLocked ==
  IF HasOutstandingTasks
    THEN [task |-> Head(tasks_), queue |-> Tail(tasks_)]
    ELSE [task |-> NoTask, queue |-> tasks_]

\* The admission test not counting self as an active worker.
AdmissionOk_NotSelf(wc) == GetThreadCount - wc - 1 <= max_active_workers_

\* GetTask's admission test, with wc the value of waiting_count_ at the test.
AdmissionOk(wc) == GetThreadCount - wc <= max_active_workers_

\* AddTask's test for signalling task_queue_condition_.
AddTaskSignals == started_ /\ waiting_count_ # 0

\* Wait's loop condition without the HasOutstandingTasks() test.
WaitIsDone_NoQueue == shutting_down_ \/ waiting_count_ = GetThreadCount

\* Wait's loop condition without the waiting_count_ test.
WaitIsDone_NoWorkers == shutting_down_ \/ ~HasOutstandingTasks

\* The loop condition of Wait, negated: Wait returns when this holds.
WaitIsDone == shutting_down_ \/ ~(waiting_count_ # GetThreadCount \/ HasOutstandingTasks)

\* GetTask's test for broadcasting completion_condition_, with wc the
\* incremented waiting_count_.
GetTaskCompletes(wc) == wc = GetThreadCount /\ ~HasOutstandingTasks

\* Barrier::Pass on a barrier whose count is count: the count it leaves.
BarrierPass(count) == count - 1

\* Barrier::Init(self, count) that adds count to the count the barrier has.
BarrierInit_Accumulate(count) == count_ + count

\* Barrier::Init(self, count): the count it leaves.
BarrierInit(count) == count

\* Barrier::Increment(self, delta) on a barrier whose count is count: the
\* count it leaves.
BarrierIncrement(count, delta) == count + delta

\* A Barrier operation that leaves count wakes all blocked parties.
BarrierWakes(count) == count = 0

\* A party of a blocking Barrier operation that finds count blocks.
BarrierBlocks(count) == count > 0

\* The Barrier's condition is broadcast: every blocked party is woken, the
\* parties of a timed Increment included.
BroadcastBarrier(pc) ==
  [p \in DOMAIN pc |-> CASE pc[p] = "blocked" -> "woken"
                          [] pc[p] = "timed" -> "timed_woken"
                          [] OTHER -> pc[p]]

\* The parties' positions after an operation has left count.
BarrierWake(count, pc) == IF BarrierWakes(count) THEN BroadcastBarrier(pc) ELSE pc

\* The threads waiting on task_queue_condition_.
BlockedWorkers == {w \in Workers : wpc[w] = "blocked"}

\* task_queue_condition_.Broadcast: every blocked worker is woken.
BroadcastTaskQueue(pc) == [w \in Workers |-> IF pc[w] = "blocked" THEN "woken" ELSE pc[w]]

\* completion_condition_.Broadcast: every blocked caller of Wait is woken.
BroadcastCompletion(pc) == [c \in Callers |-> IF pc[c] = "blocked" THEN "woken" ELSE pc[c]]

\* The log after the call `what` has been made on task t.
Record(t, what) == [log EXCEPT ![t] = Append(@, what)]

\* -------------------------------------------------------------------- Init
\* The state after AbstractThreadPool's constructor, num_threads drawn from
\* 0..MaxThreads: no worker exists yet, max_active_workers_ = num_threads.
PoolInit ==
  /\ tasks_ = <<>>
  /\ started_ = FALSE
  /\ shutting_down_ = FALSE
  /\ waiting_count_ = 0
  /\ max_active_workers_ \in 0..MaxThreads
  /\ threads_ = {}
  /\ creation_barier_ = 0
  /\ aborted = FALSE
  /\ wpc = [w \in Workers |-> "none"]
  /\ wtask = [w \in Workers |-> NoTask]
  /\ cpc = [c \in Callers |-> "idle"]
  /\ ctask = [c \in Callers |-> NoTask]
  /\ csnap = [c \in Callers |-> 0]
  /\ cdo_work = [c \in Callers |-> FALSE]
  /\ life = "idle"
  /\ in_dtor = FALSE
  /\ rtask = NoTask
  /\ next_task = 1
  /\ log = [t \in TaskIds |-> <<>>]
  /\ worker_ran = <<>>
  /\ added_late = {}
  /\ crpc = [c \in Callers |-> "idle"]
  /\ create_peers_ \in BOOLEAN

\* No Barrier other than creation_barier_ is in use.
Init ==
  /\ PoolInit
  /\ count_ = 0
  /\ bpc = [p \in Parties |-> "idle"]
  /\ btest = "none"
  /\ bparam = 0
  /\ pass_calls = 0
  /\ timed_calls = 0
  /\ init_calls = 0

Alive == ~aborted /\ life # "destroyed"

\* ------------------------------------------------------- client operations
\* AddTask without the Signal of task_queue_condition_.
AddTask_NoSignal ==
  /\ Alive
  /\ next_task <= MaxTasks
  /\ tasks_' = Append(tasks_, next_task)
  /\ next_task' = next_task + 1
  /\ UNCHANGED <<started_, shutting_down_, waiting_count_, max_active_workers_,
                 threads_, creation_barier_, aborted, workerVars, callerVars,
                 ownerVars, log, worker_ran>>
  /\ added_late' = IF shutting_down_ THEN added_late \cup {next_task} ELSE added_late
  /\ UNCHANGED <<creationVars, barrierVars, create_peers_>>

\* ThreadPool::AddTask, by any thread (a running task's Run included).
AddTask ==
  /\ Alive
  /\ next_task <= MaxTasks
  /\ tasks_' = Append(tasks_, next_task)
  /\ next_task' = next_task + 1
  /\ IF AddTaskSignals /\ BlockedWorkers # {}
       THEN \E w \in BlockedWorkers : wpc' = [wpc EXCEPT ![w] = "woken"]
       ELSE wpc' = wpc
  /\ UNCHANGED <<started_, shutting_down_, waiting_count_, max_active_workers_,
                 threads_, creation_barier_, aborted, wtask, callerVars, ownerVars, log, worker_ran>>
  /\ added_late' = IF shutting_down_ THEN added_late \cup {next_task} ELSE added_late
  /\ UNCHANGED <<creationVars, barrierVars, create_peers_>>

\* StartWorkers without the Broadcast of task_queue_condition_.
StartWorkers_NoBroadcast ==
  /\ Alive /\ ~in_dtor
  /\ started_' = TRUE
  /\ UNCHANGED <<tasks_, shutting_down_, waiting_count_, max_active_workers_,
                 threads_, creation_barier_, aborted, workerVars, callerVars,
                 ownerVars, next_task, log, worker_ran>>
  /\ UNCHANGED <<added_late, creationVars, barrierVars, create_peers_>>

\* AbstractThreadPool::StartWorkers.
StartWorkers ==
  /\ Alive /\ ~in_dtor
  /\ started_' = TRUE
  /\ wpc' = BroadcastTaskQueue(wpc)
  /\ UNCHANGED <<tasks_, shutting_down_, waiting_count_, max_active_workers_,
                 threads_, creation_barier_, aborted, wtask, callerVars, ownerVars,
                 next_task, log, worker_ran>>
  /\ UNCHANGED <<added_late, creationVars, barrierVars, create_peers_>>

\* StopWorkers that also broadcasts task_queue_condition_.
StopWorkers_Broadcast ==
  /\ Alive /\ ~in_dtor
  /\ started_
  /\ started_' = FALSE
  /\ wpc' = BroadcastTaskQueue(wpc)
  /\ UNCHANGED <<tasks_, shutting_down_, waiting_count_, max_active_workers_,
                 threads_, creation_barier_, aborted, wtask, callerVars,
                 ownerVars, next_task, log, worker_ran>>
  /\ UNCHANGED <<added_late, creationVars, barrierVars, create_peers_>>

\* AbstractThreadPool::StopWorkers.
StopWorkers ==
  /\ Alive /\ ~in_dtor
  /\ started_
  /\ started_' = FALSE
  /\ UNCHANGED <<tasks_, shutting_down_, waiting_count_, max_active_workers_,
                 threads_, creation_barier_, aborted, workerVars, callerVars,
                 ownerVars, next_task, log, worker_ran>>
  /\ UNCHANGED <<added_late, creationVars, barrierVars, create_peers_>>

\* SetMaxActiveWorkers without CHECK_LE(max_workers, GetThreadCount()).
SetMaxActiveWorkers_NoCheck(max_workers) ==
  /\ Alive /\ ~in_dtor
  /\ max_workers # max_active_workers_
  /\ max_active_workers_' = max_workers
  /\ UNCHANGED <<tasks_, started_, shutting_down_, waiting_count_, threads_,
                 creation_barier_, aborted, workerVars, callerVars, ownerVars,
                 next_task, log, worker_ran>>
  /\ UNCHANGED <<added_late, creationVars, barrierVars, create_peers_>>

\* SetMaxActiveWorkers that also broadcasts task_queue_condition_.
SetMaxActiveWorkers_Broadcast(max_workers) ==
  /\ Alive /\ ~in_dtor
  /\ max_workers # max_active_workers_ \/ max_workers > GetThreadCount
  /\ IF max_workers <= GetThreadCount
       THEN /\ max_active_workers_' = max_workers /\ aborted' = aborted
            /\ wpc' = BroadcastTaskQueue(wpc)
       ELSE /\ max_active_workers_' = max_active_workers_ /\ aborted' = TRUE
            /\ wpc' = wpc
  /\ UNCHANGED <<tasks_, started_, shutting_down_, waiting_count_, threads_,
                 creation_barier_, wtask, callerVars, ownerVars,
                 next_task, log, worker_ran>>
  /\ UNCHANGED <<added_late, creationVars, barrierVars, create_peers_>>

\* AbstractThreadPool::SetMaxActiveWorkers(max_workers).
SetMaxActiveWorkers(max_workers) ==
  /\ Alive /\ ~in_dtor
  /\ max_workers # max_active_workers_ \/ max_workers > GetThreadCount
  /\ IF max_workers <= GetThreadCount
       THEN max_active_workers_' = max_workers /\ aborted' = aborted
       ELSE max_active_workers_' = max_active_workers_ /\ aborted' = TRUE
  /\ UNCHANGED <<tasks_, started_, shutting_down_, waiting_count_, threads_,
                 creation_barier_, workerVars, callerVars, ownerVars,
                 next_task, log, worker_ran>>
  /\ UNCHANGED <<added_late, creationVars, barrierVars, create_peers_>>

\* CreateThreads without the assignment shutting_down_ = false.
CreateThreads_KeepShutdown ==
  /\ Alive /\ life = "idle" /\ ~in_dtor
  /\ IF threads_ # {}
       THEN /\ aborted' = TRUE
            /\ UNCHANGED <<creation_barier_, threads_, wpc, crpc>>
       ELSE /\ aborted' = aborted
            /\ creation_barier_' = BarrierInit(max_active_workers_)
            /\ crpc' = BarrierWake(BarrierInit(max_active_workers_), crpc)
            /\ threads_' = 1..max_active_workers_
            /\ wpc' = [w \in Workers |-> IF w <= max_active_workers_ THEN "attach" ELSE "none"]
  /\ UNCHANGED <<tasks_, started_, shutting_down_, waiting_count_, max_active_workers_,
                 wtask, callerVars, ownerVars, next_task, log, worker_ran>>
  /\ UNCHANGED <<added_late, barrierVars, create_peers_>>

\* CreateThreads whose loop stops one thread short of max_active_workers_.
CreateThreads_OneFewer ==
  /\ Alive /\ life = "idle" /\ ~in_dtor
  /\ IF threads_ # {}
       THEN /\ aborted' = TRUE
            /\ UNCHANGED <<shutting_down_, creation_barier_, threads_, wpc, crpc>>
       ELSE /\ aborted' = aborted
            /\ shutting_down_' = FALSE
            /\ creation_barier_' = BarrierInit(max_active_workers_)
            /\ crpc' = BarrierWake(BarrierInit(max_active_workers_), crpc)
            /\ threads_' = 1..(max_active_workers_ - 1)
            /\ wpc' = [w \in Workers |-> IF w < max_active_workers_ THEN "attach" ELSE "none"]
  /\ UNCHANGED <<tasks_, started_, waiting_count_, max_active_workers_, wtask,
                 callerVars, ownerVars, next_task, log, worker_ran>>
  /\ UNCHANGED <<added_late, barrierVars, create_peers_>>

\* CreateThreads without CHECK(threads_.empty()): the loop adds workers to
\* a roster that is below max_active_workers_.
CreateThreads_NoCheck ==
  /\ Alive /\ life = "idle" /\ ~in_dtor
  /\ aborted' = aborted
  /\ shutting_down_' = FALSE
  /\ creation_barier_' = BarrierInit(max_active_workers_)
  /\ crpc' = BarrierWake(BarrierInit(max_active_workers_), crpc)
  /\ threads_' = threads_ \cup 1..max_active_workers_
  /\ wpc' = [w \in Workers |-> IF w \in 1..max_active_workers_ \ threads_
                                  THEN "attach" ELSE wpc[w]]
  /\ UNCHANGED <<tasks_, started_, waiting_count_, max_active_workers_, wtask,
                 callerVars, ownerVars, next_task, log, worker_ran>>
  /\ UNCHANGED <<added_late, barrierVars, create_peers_>>

\* AbstractThreadPool::CreateThreads, by the owning thread.
CreateThreads ==
  /\ Alive /\ life = "idle" /\ ~in_dtor
  /\ IF threads_ # {}
       THEN /\ aborted' = TRUE
            /\ UNCHANGED <<shutting_down_, creation_barier_, threads_, wpc, crpc>>
       ELSE /\ aborted' = aborted
            /\ shutting_down_' = FALSE
            /\ creation_barier_' = BarrierInit(max_active_workers_)
            /\ crpc' = BarrierWake(BarrierInit(max_active_workers_), crpc)
            /\ threads_' = 1..max_active_workers_
            /\ wpc' = [w \in Workers |-> IF w <= max_active_workers_ THEN "attach" ELSE "none"]
  /\ UNCHANGED <<tasks_, started_, waiting_count_, max_active_workers_, wtask,
                 callerVars, ownerVars, next_task, log, worker_ran>>
  /\ UNCHANGED <<added_late, barrierVars, create_peers_>>

\* DeleteThreads setting shutting_down_ without the two Broadcasts.
DeleteThreads_NoBroadcast(dtor) ==
  /\ Alive /\ life = "idle"
  /\ dtor => \A c \in Callers : cpc[c] = "idle"
  /\ shutting_down_' = TRUE
  /\ life' = "joining"
  /\ in_dtor' = dtor
  /\ UNCHANGED <<tasks_, started_, waiting_count_, max_active_workers_, threads_,
                 creation_barier_, aborted, workerVars, callerVars, rtask,
                 next_task, log, worker_ran>>
  /\ UNCHANGED <<added_late, creationVars, barrierVars, create_peers_>>

\* The critical section of AbstractThreadPool::DeleteThreads; dtor says
\* whether ~ThreadPool makes the call.  The destructor runs only when no
\* other thread is inside a method of the pool.
DeleteThreads(dtor) ==
  /\ Alive /\ life = "idle"
  /\ dtor => \A c \in Callers : cpc[c] = "idle"
  /\ shutting_down_' = TRUE
  /\ wpc' = BroadcastTaskQueue(wpc)
  /\ cpc' = BroadcastCompletion(cpc)
  /\ life' = "joining"
  /\ in_dtor' = dtor
  /\ UNCHANGED <<tasks_, started_, waiting_count_, max_active_workers_, threads_,
                 creation_barier_, aborted, wtask, ctask, csnap, cdo_work, rtask,
                 next_task, log, worker_ran>>
  /\ UNCHANGED <<added_late, creationVars, barrierVars, create_peers_>>

\* STLDeleteElements(&threads_): every worker's pthread_join has returned,
\* the roster is cleared.
JoinThreads ==
  /\ Alive /\ life = "joining"
  /\ \A w \in threads_ : wpc[w] = "exited"
  /\ threads_' = {}
  /\ wpc' = [w \in Workers |-> "none"]
  /\ life' = IF in_dtor THEN "removing" ELSE "idle"
  /\ UNCHANGED <<poolVars, creation_barier_, aborted, wtask, callerVars, in_dtor,
                 rtask, next_task, log, worker_ran>>
  /\ UNCHANGED <<added_late, creationVars, barrierVars, create_peers_>>

\* A direct call of ThreadPool::RemoveAllTasks by the owning thread.
RemoveAllTasksCall ==
  /\ Alive /\ life = "idle" /\ ~in_dtor
  /\ life' = "removing"
  /\ UNCHANGED <<poolVars, threads_, creation_barier_, aborted, workerVars,
                 callerVars, in_dtor, rtask, next_task, log, worker_ran>>
  /\ UNCHANGED <<added_late, creationVars, barrierVars, create_peers_>>

\* RemoveAllTasks clearing the deque without finalizing what it held.
RemoveAllTasksPop_Clear ==
  /\ Alive /\ life = "removing"
  /\ tasks_' = <<>>
  /\ life' = IF in_dtor THEN "destroyed" ELSE "idle"
  /\ UNCHANGED <<started_, shutting_down_, waiting_count_, max_active_workers_,
                 threads_, creation_barier_, aborted, workerVars, callerVars,
                 in_dtor, rtask, next_task, log, worker_ran>>
  /\ UNCHANGED <<added_late, creationVars, barrierVars, create_peers_>>

\* RemoveAllTasks' critical section taking the task at the back of the
\* queue.
RemoveAllTasksPop_Back ==
  /\ Alive /\ life = "removing"
  /\ IF tasks_ = <<>>
       THEN /\ life' = IF in_dtor THEN "destroyed" ELSE "idle"
            /\ UNCHANGED <<tasks_, rtask>>
       ELSE /\ rtask' = tasks_[Len(tasks_)]
            /\ tasks_' = SubSeq(tasks_, 1, Len(tasks_) - 1)
            /\ life' = "finalizing"
  /\ UNCHANGED <<started_, shutting_down_, waiting_count_, max_active_workers_,
                 threads_, creation_barier_, aborted, workerVars, callerVars,
                 in_dtor, next_task, log, worker_ran>>
  /\ UNCHANGED <<added_late, creationVars, barrierVars, create_peers_>>

\* One critical section of RemoveAllTasks' loop: return on an empty queue,
\* else pop the front.
RemoveAllTasksPop ==
  /\ Alive /\ life = "removing"
  /\ IF tasks_ = <<>>
       THEN /\ life' = IF in_dtor THEN "destroyed" ELSE "idle"
            /\ UNCHANGED <<tasks_, rtask>>
       ELSE /\ rtask' = Head(tasks_)
            /\ tasks_' = Tail(tasks_)
            /\ life' = "finalizing"
  /\ UNCHANGED <<started_, shutting_down_, waiting_count_, max_active_workers_,
                 threads_, creation_barier_, aborted, workerVars, callerVars,
                 in_dtor, next_task, log, worker_ran>>
  /\ UNCHANGED <<added_late, creationVars, barrierVars, create_peers_>>

\* RemoveAllTasks calling Run before Finalize on the task it popped.
RemoveAllTasksFinalize_Run ==
  /\ Alive /\ life = "finalizing"
  /\ log' = [log EXCEPT ![rtask] = Append(Append(@, "run"), "finalize")]
  /\ rtask' = NoTask
  /\ life' = "removing"
  /\ UNCHANGED <<poolVars, threads_, creation_barier_, aborted, workerVars,
                 callerVars, in_dtor, next_task, worker_ran>>
  /\ added_late' = added_late \ {rtask}
  /\ UNCHANGED <<creationVars, barrierVars, create_peers_>>

\* task->Finalize() in RemoveAllTasks, outside the lock.
RemoveAllTasksFinalize ==
  /\ Alive /\ life = "finalizing"
  /\ log' = Record(rtask, "finalize")
  /\ rtask' = NoTask
  /\ life' = "removing"
  /\ UNCHANGED <<poolVars, threads_, creation_barier_, aborted, workerVars,
                 callerVars, in_dtor, next_task, worker_ran>>
  /\ added_late' = added_late \ {rtask}
  /\ UNCHANGED <<creationVars, barrierVars, create_peers_>>

\* ------------------------------------------------------------- the workers
\* ThreadPoolWorker::Callback going from the attach to the loop without
\* creation_barier_.Pass.
WorkerAttach_SkipsPass(w) ==
  /\ ~aborted /\ wpc[w] = "attach"
  /\ wpc' = [wpc EXCEPT ![w] = "get"]
  /\ UNCHANGED <<poolVars, threads_, creation_barier_, aborted, wtask, callerVars,
                 ownerVars, next_task, log, worker_ran>>
  /\ UNCHANGED <<added_late, creationVars, barrierVars, create_peers_>>

\* ThreadPoolWorker::Callback up to worker->Run(): the runtime attach.
WorkerAttach(w) ==
  /\ ~aborted /\ wpc[w] = "attach"
  /\ wpc' = [wpc EXCEPT ![w] = "pass"]
  /\ UNCHANGED <<poolVars, threads_, creation_barier_, aborted, wtask, callerVars,
                 ownerVars, next_task, log, worker_ran>>
  /\ UNCHANGED <<added_late, creationVars, barrierVars, create_peers_>>

\* WorkerPass decrementing the count without waking the barrier's parties.
WorkerPass_NoWake(w) ==
  /\ ~aborted /\ wpc[w] = "pass"
  /\ creation_barier_' = BarrierPass(creation_barier_)
  /\ wpc' = [wpc EXCEPT ![w] = "get"]
  /\ UNCHANGED <<poolVars, threads_, aborted, wtask, callerVars, ownerVars,
                 next_task, log, worker_ran>>
  /\ UNCHANGED <<added_late, creationVars, barrierVars, create_peers_>>

\* ThreadPoolWorker::Run: creation_barier_.Pass(self).
WorkerPass(w) ==
  /\ ~aborted /\ wpc[w] = "pass"
  /\ creation_barier_' = BarrierPass(creation_barier_)
  /\ crpc' = BarrierWake(BarrierPass(creation_barier_), crpc)
  /\ wpc' = [wpc EXCEPT ![w] = "get"]
  /\ UNCHANGED <<poolVars, threads_, aborted, wtask, callerVars, ownerVars,
                 next_task, log, worker_ran>>
  /\ UNCHANGED <<added_late, barrierVars, create_peers_>>

\* GetTask's loop without the IsShuttingDown() test.
GetTaskLoop_NoShutdownTest(w, wc, pc) ==
  IF AdmissionOk(wc) /\ TryGetTaskLocked.task # NoTask
    THEN /\ wtask' = [wtask EXCEPT ![w] = TryGetTaskLocked.task]
         /\ tasks_' = TryGetTaskLocked.queue
         /\ wpc' = [pc EXCEPT ![w] = "run"]
         /\ waiting_count_' = wc
         /\ UNCHANGED cpc
    ELSE /\ waiting_count_' = wc + 1
         /\ cpc' = IF GetTaskCompletes(wc + 1) THEN BroadcastCompletion(cpc) ELSE cpc
         /\ wpc' = [pc EXCEPT ![w] = "blocked"]
         /\ UNCHANGED <<tasks_, wtask>>

\* GetTask's loop returning nullptr also when the pool is not started.
GetTaskLoop_LeavesWhenStopped(w, wc, pc) ==
  IF IsShuttingDown \/ ~started_
    THEN /\ wpc' = [pc EXCEPT ![w] = "detach"]
         /\ waiting_count_' = wc
         /\ UNCHANGED <<tasks_, wtask, cpc>>
    ELSE IF AdmissionOk(wc) /\ TryGetTaskLocked.task # NoTask
      THEN /\ wtask' = [wtask EXCEPT ![w] = TryGetTaskLocked.task]
           /\ tasks_' = TryGetTaskLocked.queue
           /\ wpc' = [pc EXCEPT ![w] = "run"]
           /\ waiting_count_' = wc
           /\ UNCHANGED cpc
      ELSE /\ waiting_count_' = wc + 1
           /\ cpc' = IF GetTaskCompletes(wc + 1) THEN BroadcastCompletion(cpc) ELSE cpc
           /\ wpc' = [pc EXCEPT ![w] = "blocked"]
           /\ UNCHANGED <<tasks_, wtask>>

\* GetTask's loop with ++waiting_count_ ahead of the admission test: a
\* worker that returns with a task stays counted.
GetTaskLoop_CountsHolder(w, wc, pc) ==
  IF IsShuttingDown
    THEN /\ wpc' = [pc EXCEPT ![w] = "detach"]
         /\ waiting_count_' = wc
         /\ UNCHANGED <<tasks_, wtask, cpc>>
    ELSE IF AdmissionOk(wc) /\ TryGetTaskLocked.task # NoTask
      THEN /\ wtask' = [wtask EXCEPT ![w] = TryGetTaskLocked.task]
           /\ tasks_' = TryGetTaskLocked.queue
           /\ wpc' = [pc EXCEPT ![w] = "run"]
           /\ waiting_count_' = wc + 1
           /\ UNCHANGED cpc
      ELSE /\ waiting_count_' = wc + 1
           /\ cpc' = IF GetTaskCompletes(wc + 1) THEN BroadcastCompletion(cpc) ELSE cpc
           /\ wpc' = [pc EXCEPT ![w] = "blocked"]
           /\ UNCHANGED <<tasks_, wtask>>

\* One pass of GetTask's loop under the lock, entered with waiting_count_ = wc
\* and the condition's waiters as in pc: return nullptr, return a task, or
\* count the worker as waiting and block on task_queue_condition_.
GetTaskLoop(w, wc, pc) ==
  IF IsShuttingDown
    THEN /\ wpc' = [pc EXCEPT ![w] = "detach"]
         /\ waiting_count_' = wc
         /\ UNCHANGED <<tasks_, wtask, cpc>>
    ELSE IF AdmissionOk(wc) /\ TryGetTaskLocked.task # NoTask
      THEN /\ wtask' = [wtask EXCEPT ![w] = TryGetTaskLocked.task]
           /\ tasks_' = TryGetTaskLocked.queue
           /\ wpc' = [pc EXCEPT ![w] = "run"]
           /\ waiting_count_' = wc
           /\ UNCHANGED cpc
      ELSE /\ waiting_count_' = wc + 1
           /\ cpc' = IF GetTaskCompletes(wc + 1) THEN BroadcastCompletion(cpc) ELSE cpc
           /\ wpc' = [pc EXCEPT ![w] = "blocked"]
           /\ UNCHANGED <<tasks_, wtask>>

\* AbstractThreadPool::GetTask entered from the worker's loop.
WorkerGetTask(w) ==
  /\ ~aborted /\ wpc[w] = "get"
  /\ GetTaskLoop(w, waiting_count_, wpc)
  /\ UNCHANGED <<started_, shutting_down_, max_active_workers_, threads_,
                 creation_barier_, aborted, ctask, csnap, cdo_work, ownerVars,
                 next_task, log, worker_ran>>
  /\ UNCHANGED <<added_late, creationVars, barrierVars, create_peers_>>

\* GetTask resuming after task_queue_condition_.Wait without --waiting_count_.
WorkerWake_NoDecrement(w) ==
  /\ ~aborted /\ wpc[w] = "woken"
  /\ GetTaskLoop(w, waiting_count_, wpc)
  /\ UNCHANGED <<started_, shutting_down_, max_active_workers_, threads_,
                 creation_barier_, aborted, ctask, csnap, cdo_work, ownerVars,
                 next_task, log, worker_ran>>
  /\ UNCHANGED <<added_late, creationVars, barrierVars, create_peers_>>

\* task_queue_condition_.Wait returns and the loop's test comes before
\* --waiting_count_: a worker woken for shutdown leaves still counted.
WorkerWake_LeavesCounted(w) ==
  /\ ~aborted /\ wpc[w] = "woken"
  /\ GetTaskLoop(w, IF IsShuttingDown THEN waiting_count_ ELSE waiting_count_ - 1, wpc)
  /\ UNCHANGED <<started_, shutting_down_, max_active_workers_, threads_,
                 creation_barier_, aborted, ctask, csnap, cdo_work, ownerVars,
                 next_task, log, worker_ran>>
  /\ UNCHANGED <<added_late, creationVars, barrierVars, create_peers_>>

\* task_queue_condition_.Wait returns: --waiting_count_, then the loop again.
WorkerWake(w) ==
  /\ ~aborted /\ wpc[w] = "woken"
  /\ GetTaskLoop(w, waiting_count_ - 1, wpc)
  /\ UNCHANGED <<started_, shutting_down_, max_active_workers_, threads_,
                 creation_barier_, aborted, ctask, csnap, cdo_work, ownerVars,
                 next_task, log, worker_ran>>
  /\ UNCHANGED <<added_late, creationVars, barrierVars, create_peers_>>

\* task->Run(self) in ThreadPoolWorker::Run, from its call to its return.
WorkerRun(w) ==
  /\ ~aborted /\ wpc[w] = "run"
  /\ log' = Record(wtask[w], "run")
  /\ worker_ran' = Append(worker_ran, wtask[w])
  /\ wpc' = [wpc EXCEPT ![w] = "finalize"]
  /\ UNCHANGED <<poolVars, threads_, creation_barier_, aborted, wtask, callerVars,
                 ownerVars, next_task>>
  /\ UNCHANGED <<added_late, creationVars, barrierVars, create_peers_>>

\* task->Finalize() in ThreadPoolWorker::Run.
WorkerFinalize(w) ==
  /\ ~aborted /\ wpc[w] = "finalize"
  /\ log' = Record(wtask[w], "finalize")
  /\ wtask' = [wtask EXCEPT ![w] = NoTask]
  /\ wpc' = [wpc EXCEPT ![w] = "get"]
  /\ UNCHANGED <<poolVars, threads_, creation_barier_, aborted, callerVars,
                 ownerVars, next_task, worker_ran>>
  /\ added_late' = added_late \ {wtask[w]}
  /\ UNCHANGED <<creationVars, barrierVars, create_peers_>>

\* ThreadPoolWorker::Callback after worker->Run(): the runtime detach and
\* the thread's end.
WorkerDetach(w) ==
  /\ ~aborted /\ wpc[w] = "detach"
  /\ wpc' = [wpc EXCEPT ![w] = "exited"]
  /\ UNCHANGED <<poolVars, threads_, creation_barier_, aborted, wtask, callerVars,
                 ownerVars, next_task, log, worker_ran>>
  /\ UNCHANGED <<added_late, creationVars, barrierVars, create_peers_>>

\* ------------------------------------------------------ the callers of Wait
\* Wait without CHECK(!create_peers_).
WaitCall_NoCheck(c, do_work) ==
  /\ Alive /\ ~in_dtor /\ cpc[c] = "idle"
  /\ cpc' = [cpc EXCEPT ![c] = IF do_work THEN "drain" ELSE "check"]
  /\ cdo_work' = [cdo_work EXCEPT ![c] = do_work]
  /\ csnap' = [csnap EXCEPT ![c] = IF do_work THEN next_task - 1 ELSE 0]
  /\ UNCHANGED <<poolVars, threads_, creation_barier_, aborted, workerVars, ctask,
                 ownerVars, next_task, log, worker_ran>>
  /\ UNCHANGED <<added_late, creationVars, barrierVars, create_peers_>>

\* AbstractThreadPool::Wait(self, do_work, may_hold_locks) is called.
WaitCall(c, do_work) ==
  /\ Alive /\ ~in_dtor /\ cpc[c] = "idle"
  /\ cdo_work' = [cdo_work EXCEPT ![c] = do_work]
  /\ IF do_work /\ create_peers_
       THEN /\ aborted' = TRUE
            /\ UNCHANGED <<cpc, csnap>>
       ELSE /\ aborted' = aborted
            /\ cpc' = [cpc EXCEPT ![c] = IF do_work THEN "drain" ELSE "check"]
            /\ csnap' = [csnap EXCEPT ![c] = IF do_work THEN next_task - 1 ELSE 0]
  /\ UNCHANGED <<poolVars, threads_, creation_barier_, workerVars, ctask,
                 ownerVars, next_task, log, worker_ran>>
  /\ UNCHANGED <<added_late, creationVars, barrierVars, create_peers_>>

\* TryGetTask applying GetTask's admission test before it pops.
WaitTryGetTask_Capped(c) ==
  /\ ~aborted /\ cpc[c] = "drain"
  /\ IF AdmissionOk(waiting_count_) /\ TryGetTaskLocked.task # NoTask
       THEN /\ ctask' = [ctask EXCEPT ![c] = TryGetTaskLocked.task]
            /\ tasks_' = TryGetTaskLocked.queue
            /\ cpc' = [cpc EXCEPT ![c] = "run"]
       ELSE /\ cpc' = [cpc EXCEPT ![c] = "check"]
            /\ UNCHANGED <<tasks_, ctask>>
  /\ UNCHANGED <<started_, shutting_down_, waiting_count_, max_active_workers_,
                 threads_, creation_barier_, aborted, workerVars, csnap, cdo_work,
                 ownerVars, next_task, log, worker_ran>>
  /\ UNCHANGED <<added_late, creationVars, barrierVars, create_peers_>>

\* TryGetTask(self) in Wait's do_work loop.
WaitTryGetTask(c) ==
  /\ ~aborted /\ cpc[c] = "drain"
  /\ IF TryGetTaskLocked.task # NoTask
       THEN /\ ctask' = [ctask EXCEPT ![c] = TryGetTaskLocked.task]
            /\ tasks_' = TryGetTaskLocked.queue
            /\ cpc' = [cpc EXCEPT ![c] = "run"]
       ELSE /\ cpc' = [cpc EXCEPT ![c] = "check"]
            /\ UNCHANGED <<tasks_, ctask>>
  /\ UNCHANGED <<started_, shutting_down_, waiting_count_, max_active_workers_,
                 threads_, creation_barier_, aborted, workerVars, csnap, cdo_work,
                 ownerVars, next_task, log, worker_ran>>
  /\ UNCHANGED <<added_late, creationVars, barrierVars, create_peers_>>

\* task->Run(self) in Wait's do_work loop.
WaitRun(c) ==
  /\ ~aborted /\ cpc[c] = "run"
  /\ log' = Record(ctask[c], "run")
  /\ cpc' = [cpc EXCEPT ![c] = "finalize"]
  /\ UNCHANGED <<poolVars, threads_, creation_barier_, aborted, workerVars, ctask,
                 csnap, cdo_work, ownerVars, next_task, worker_ran>>
  /\ UNCHANGED <<added_late, creationVars, barrierVars, create_peers_>>

\* task->Finalize() in Wait's do_work loop.
WaitFinalize(c) ==
  /\ ~aborted /\ cpc[c] = "finalize"
  /\ log' = Record(ctask[c], "finalize")
  /\ ctask' = [ctask EXCEPT ![c] = NoTask]
  /\ cpc' = [cpc EXCEPT ![c] = "drain"]
  /\ UNCHANGED <<poolVars, threads_, creation_barier_, aborted, workerVars, csnap,
                 cdo_work, ownerVars, next_task, worker_ran>>
  /\ added_late' = added_late \ {ctask[c]}
  /\ UNCHANGED <<creationVars, barrierVars, create_peers_>>

\* Wait's loop under the lock, entered for the first time or after
\* completion_condition_.Wait has returned: return, or block.
WaitCheck(c) ==
  /\ ~aborted /\ cpc[c] \in {"check", "woken"}
  /\ cpc' = [cpc EXCEPT ![c] = IF WaitIsDone THEN "returned" ELSE "blocked"]
  /\ UNCHANGED <<poolVars, threads_, creation_barier_, aborted, workerVars, ctask,
                 csnap, cdo_work, ownerVars, next_task, log, worker_ran>>
  /\ UNCHANGED <<added_late, creationVars, barrierVars, create_peers_>>

\* The caller is back from Wait and goes on with its own work.
WaitReturn(c) ==
  /\ ~aborted /\ cpc[c] = "returned"
  /\ cpc' = [cpc EXCEPT ![c] = "idle"]
  /\ csnap' = [csnap EXCEPT ![c] = 0]
  /\ cdo_work' = [cdo_work EXCEPT ![c] = FALSE]
  /\ UNCHANGED <<poolVars, threads_, creation_barier_, aborted, workerVars, ctask,
                 ownerVars, next_task, log, worker_ran>>
  /\ UNCHANGED <<added_late, creationVars, barrierVars, create_peers_>>

\* ------------------------------- the callers of WaitForWorkersToBeCreated
\* AbstractThreadPool::WaitForWorkersToBeCreated is called:
\* creation_barier_.Increment(self, 0) applies its delta and returns or
\* blocks.
WaitForWorkersToBeCreated(c) ==
  /\ Alive /\ ~in_dtor /\ crpc[c] = "idle" /\ cpc[c] = "idle"
  /\ creation_barier_' = BarrierIncrement(creation_barier_, 0)
  /\ crpc' = [BarrierWake(BarrierIncrement(creation_barier_, 0), crpc) EXCEPT ![c] =
                IF BarrierBlocks(BarrierIncrement(creation_barier_, 0))
                  THEN "blocked" ELSE "returned"]
  /\ UNCHANGED <<poolVars, threads_, aborted, workerVars, callerVars, ownerVars,
                 next_task, log, worker_ran, added_late, barrierVars, create_peers_>>

\* The Increment of WaitForWorkersToBeCreated resumes after a wake-up and
\* tests the count again.
WaitForWorkersResume(c) ==
  /\ ~aborted /\ crpc[c] = "woken"
  /\ crpc' = [crpc EXCEPT ![c] =
                IF BarrierBlocks(creation_barier_) THEN "blocked" ELSE "returned"]
  /\ UNCHANGED <<poolVars, threads_, creation_barier_, aborted, workerVars,
                 callerVars, ownerVars, next_task, log, worker_ran, added_late,
                 barrierVars, create_peers_>>

\* The caller is back from WaitForWorkersToBeCreated.
WaitForWorkersReturn(c) ==
  /\ ~aborted /\ crpc[c] = "returned"
  /\ crpc' = [crpc EXCEPT ![c] = "idle"]
  /\ UNCHANGED <<poolVars, threads_, creation_barier_, aborted, workerVars,
                 callerVars, ownerVars, next_task, log, worker_ran, added_late,
                 barrierVars, create_peers_>>

\* -------------------------------------------------------------------- Next
Next ==
  \/ AddTask
  \/ StartWorkers
  \/ StopWorkers
  \/ \E m \in 0..MaxThreads : SetMaxActiveWorkers(m)
  \/ CreateThreads
  \/ \E dtor \in BOOLEAN : DeleteThreads(dtor)
  \/ JoinThreads
  \/ RemoveAllTasksCall
  \/ RemoveAllTasksPop
  \/ RemoveAllTasksFinalize
  \/ \E w \in Workers : WorkerAttach(w)
  \/ \E w \in Workers : WorkerPass(w)
  \/ \E w \in Workers : WorkerGetTask(w)
  \/ \E w \in Workers : WorkerWake(w)
  \/ \E w \in Workers : WorkerRun(w)
  \/ \E w \in Workers : WorkerFinalize(w)
  \/ \E w \in Workers : WorkerDetach(w)
  \/ \E c \in Callers, d \in BOOLEAN : WaitCall(c, d)
  \/ \E c \in Callers : WaitTryGetTask(c)
  \/ \E c \in Callers : WaitRun(c)
  \/ \E c \in Callers : WaitFinalize(c)
  \/ \E c \in Callers : WaitCheck(c)
  \/ \E c \in Callers : WaitReturn(c)

Spec == Init /\ [][Next]_vars


\* ------------------------------------------------------------------ claims
Submitted == 1..(next_task - 1)
Queued == Range(tasks_)
RunningWorkers == {w \in Workers : wpc[w] = "run"}
NumRunning == Cardinality(RunningWorkers)

\* Worker w leaves GetTask with a task in this step.
Dequeues(w) == wpc[w] # "run" /\ wpc'[w] = "run"

\* Caller c returns from Wait in this step.
WaitReturns(c) == cpc[c] # "returned" /\ cpc'[c] = "returned"

RunThenFinalize == <<"run", "finalize">>
FinalizeOnly == <<"finalize">>

\* C1: on every task Run is called at most once, Finalize at most once and
\* never before Run, and once the pool is destroyed every submitted task
\* has been finalized exactly once.
C1_ExactlyOnceFinalize ==
  /\ \A t \in TaskIds : log[t] \in {<<>>, <<"run">>, RunThenFinalize, FinalizeOnly}
  /\ \A t \in TaskIds \ Submitted : log[t] = <<>>
  /\ life = "destroyed" => \A t \in Submitted : log[t] \in {RunThenFinalize, FinalizeOnly}

\* A destroyed pool that ran and finalized one task in a worker and
\* finalized another without running it in the final drain.
C1_Witness ==
  /\ life = "destroyed"
  /\ \E t \in Submitted : log[t] = RunThenFinalize /\ t \in Range(worker_ran)
  /\ \E t \in Submitted : log[t] = FinalizeOnly

\* The queue holds tasks in submission order, and every task that has left
\* it was submitted before every task still in it.
FifoQueue ==
  /\ \A i, j \in 1..Len(tasks_) : i < j => tasks_[i] < tasks_[j]
  /\ \A t \in Queued : \A u \in Submitted \ Queued : u < t

\* On a roster of one worker, the task a worker runs was submitted after
\* every task a worker ran before.
OneWorkerRunsInOrder ==
  (GetThreadCount = 1 /\ worker_ran' # worker_ran) =>
    \A i \in 1..Len(worker_ran) : worker_ran[i] < worker_ran'[Len(worker_ran')]

\* C2: tasks leave the queue in the order AddTask enqueued them, and a pool
\* of one worker runs them in that order.
C2_Fifo == []FifoQueue /\ [][OneWorkerRunsInOrder]_vars

\* One worker has run two tasks, submitted in that order.
C2_Witness == GetThreadCount = 1 /\ worker_ran = <<1, 2>>

\* C3 as claimed: while the cap is left unchanged on a started pool, the
\* number of workers inside Run is at most max_active_workers_.
C3_Original ==
  [][(max_active_workers_' = max_active_workers_ /\ started_')
       => Cardinality({w \in Workers : wpc'[w] = "run"}) <= max_active_workers_']_vars

\* C3 (amended): a worker dequeues a task only when at most
\* max_active_workers_ workers, itself included, are not counted as waiting,
\* so a dequeue never leaves more than max_active_workers_ workers inside
\* Run, and with a cap of 0 no worker dequeues at all.
C3_AdmissionAtDequeue ==
  [][\A w \in Workers : Dequeues(w) =>
        /\ GetThreadCount - waiting_count_' <= max_active_workers_
        /\ Cardinality({x \in Workers : wpc'[x] = "run"}) <= max_active_workers_
        /\ max_active_workers_ > 0]_vars

\* A started pool of two workers capped at one: one worker is inside Run,
\* the other is blocked, and the queue is not empty.
C3_Witness ==
  /\ started_ /\ ~shutting_down_
  /\ GetThreadCount = 2 /\ max_active_workers_ = 1
  /\ NumRunning = 1
  /\ \E w \in Workers : wpc[w] = "blocked"
  /\ tasks_ # <<>>

\* C4 as claimed: in every state the number of workers inside Run is at
\* most the current max_active_workers_.
C4_Original == NumRunning <= max_active_workers_

\* C4 (amended): the workers inside Run are never more than the roster less
\* waiting_count_, and their number exceeds max_active_workers_ only by a
\* step that lowers the cap or that adds no worker to those inside Run.
C4_SoftCap ==
  /\ [](NumRunning <= GetThreadCount - waiting_count_)
  /\ [][Cardinality({w \in Workers : wpc'[w] = "run"}) > max_active_workers_'
          => \/ max_active_workers_' < max_active_workers_
             \/ Cardinality({w \in Workers : wpc'[w] = "run"}) <= NumRunning]_vars

\* Two workers are inside Run after the cap was lowered to one.
C4_Witness == NumRunning = 2 /\ max_active_workers_ = 1 /\ started_

C8_NoDequeueUnlessStarted ==
  [][\A w \in Workers : Dequeues(w) => started_]_vars

\* A worker has gone through GetTask on a pool that is not started and
\* blocked, although a task is queued.
C8_Witness ==
  /\ ~started_ /\ ~shutting_down_ /\ tasks_ # <<>>
  /\ \E w \in Workers : wpc[w] = "blocked"
  /\ max_active_workers_ = GetThreadCount


\* ---------------------------------------------------------------- liveness
\* The pool in service: constructed with at least one thread, the cap kept
\* at 1 or more, no CHECK failure, no teardown, callers of Wait that do no
\* work themselves.  Worker threads and callers inside Wait are scheduled
\* fairly and every task's Run returns; the clients' calls are under no
\* obligation.
InitLive == Init /\ max_active_workers_ >= 1

WorkerStep(w) ==
  \/ WorkerAttach(w)
  \/ WorkerPass(w)
  \/ WorkerGetTask(w)
  \/ WorkerWake(w)
  \/ WorkerRun(w)
  \/ WorkerFinalize(w)

NextLive ==
  \/ AddTask
  \/ StartWorkers
  \/ StopWorkers
  \/ \E m \in 1..MaxThreads : m <= GetThreadCount /\ SetMaxActiveWorkers(m)
  \/ threads_ = {} /\ CreateThreads
  \/ \E w \in Workers : WorkerStep(w)
  \/ \E c \in Callers : WaitCall(c, FALSE)
  \/ \E c \in Callers : WaitCheck(c)
  \/ \E c \in Callers : WaitReturn(c)

LiveFairness ==
  /\ \A w \in Workers : WF_vars(WorkerStep(w))
  /\ \A c \in Callers : WF_vars(WaitCheck(c))

SpecLive == InitLive /\ [][NextLive]_vars /\ LiveFairness

\* C7: no caller of Wait(do_work = false) is blocked on completion_condition_
\* with no wake-up pending in a state where the pool is started, every
\* worker is blocked on task_queue_condition_, the queue is empty and no
\* other thread is at work: from there, with no further submission, it
\* would never return.
C7_NoLostWakeup ==
  \A c \in Callers :
    ~ /\ cpc[c] = "blocked" /\ ~cdo_work[c]
      /\ started_ /\ ~shutting_down_ /\ ~aborted
      /\ threads_ # {} /\ \A w \in threads_ : wpc[w] = "blocked"
      /\ waiting_count_ = GetThreadCount
      /\ tasks_ = <<>>
      /\ life = "idle"
      /\ \A d \in Callers \ {c} : cpc[d] \in {"idle", "blocked"}

\* C9: a task that is queued on a started pool with workers is eventually
\* run by a worker, unless the pool is stopped first.
C9_QueuedTasksRunAfterStart ==
  \A t \in TaskIds :
    (t \in Queued /\ started_ /\ threads_ # {}) ~> (t \in Range(worker_ran) \/ ~started_)

\* A worker has run a task that was submitted before StartWorkers.
C9_Witness ==
  /\ started_ /\ worker_ran = <<1, 2>> /\ tasks_ = <<>>
  /\ \A t \in 1..2 : log[t] = RunThenFinalize

NumDequeued == (next_task - 1) - Len(tasks_)

\* No worker can move although a task is queued on a started pool.
AllWorkersBlocked ==
  /\ started_ /\ ~shutting_down_ /\ tasks_ # <<>>
  /\ threads_ # {} /\ \A w \in threads_ : wpc[w] = "blocked"

\* C10: with the cap at 1 or more, a started pool is never left with a
\* queued task and every worker blocked with no wake-up pending, and a
\* non-empty queue on a started pool always loses its front task to a
\* worker, unless the pool is stopped first.
C10_NoLostSignal ==
  /\ []~AllWorkersBlocked
  /\ \A k \in 0..MaxTasks :
       (started_ /\ tasks_ # <<>> /\ threads_ # {} /\ NumDequeued = k)
         ~> (NumDequeued > k \/ ~started_)

\* AddTask has signalled a blocked worker of a started pool: the worker is
\* woken and the task is still queued.
C10_Witness ==
  /\ started_ /\ tasks_ # <<>> /\ waiting_count_ = GetThreadCount
  /\ \E w \in Workers : wpc[w] = "woken"
  /\ \E w \in Workers : wpc[w] = "blocked"

\* ------------------------------------------------- claims on TryGetTask
\* Caller c leaves TryGetTask in this step, with a task or without.
TryGetTaskReturns(c) == cpc[c] = "drain" /\ cpc'[c] # "drain"

\* C11 as claimed: TryGetTask returns a task only when GetTask's admission
\* test passes (roster less waiting_count_ at most max_active_workers_).
C11_Original ==
  [][\A c \in Callers : (TryGetTaskReturns(c) /\ ctask'[c] # NoTask)
        => GetThreadCount - waiting_count_ <= max_active_workers_]_vars

\* C11 (amended): TryGetTask returns the front task whenever the pool is
\* started and the queue is not empty, whatever max_active_workers_ and
\* waiting_count_ are, returns no task otherwise, never blocks and leaves
\* waiting_count_ alone.
C11_TryGetTaskNoAdmission ==
  [][\A c \in Callers : TryGetTaskReturns(c) =>
        /\ waiting_count_' = waiting_count_
        /\ IF started_ /\ tasks_ # <<>>
             THEN /\ cpc'[c] = "run"
                  /\ ctask'[c] = Head(tasks_)
                  /\ tasks_' = Tail(tasks_)
             ELSE /\ cpc'[c] = "check"
                  /\ ctask'[c] = NoTask
                  /\ tasks_' = tasks_]_vars

\* A caller of Wait(do_work = true) holds a task it took while the cap was
\* saturated: the pool has workers, none of them ever ran a task, and the
\* roster less waiting_count_ exceeds max_active_workers_.
C11_Witness ==
  \E c \in Callers :
    /\ cpc[c] = "run" /\ ctask[c] # NoTask
    /\ started_ /\ ~shutting_down_ /\ threads_ # {}
    /\ GetThreadCount - waiting_count_ > max_active_workers_
    /\ worker_ran = <<>>


\* ---------------------------------------------- claims on shutting_down_
\* C14 as claimed: once shutting_down_ is set no step clears it, and no
\* worker ever holds a task that was submitted while it was set.
C14_Original ==
  /\ [][shutting_down_ => shutting_down_']_vars
  /\ [](\A w \in Workers : wtask[w] \notin added_late)

\* C14 (amended): shutting_down_ is set only by DeleteThreads and cleared
\* only by CreateThreads, called on the empty roster DeleteThreads left;
\* every roster CreateThreads spawns starts with shutting_down_ cleared;
\* while the flag is set no worker leaves GetTask with a task.
C14_ClearedOnlyByCreateThreads ==
  /\ [][(~shutting_down_ /\ shutting_down_') => (life = "idle" /\ life' = "joining")]_vars
  /\ [][(shutting_down_ /\ ~shutting_down_') =>
          /\ threads_ = {} /\ life = "idle" /\ ~in_dtor
          /\ threads_' = 1..max_active_workers_
          /\ \A w \in threads_' : wpc'[w] = "attach"]_vars
  /\ [][(threads_ = {} /\ threads_' # {}) => ~shutting_down_']_vars
  /\ [][\A w \in Workers : Dequeues(w) => ~shutting_down_]_vars

\* The pool was re-created after DeleteThreads: a worker of the new roster
\* has run a task that was submitted while shutting_down_ was set.
C14_Witness ==
  /\ ~shutting_down_ /\ threads_ # {}
  /\ \E w \in Workers :
       wpc[w] = "finalize" /\ wtask[w] \in added_late /\ log[wtask[w]] = <<"run">>

\* C15 as claimed: the only call ever made on a task that was submitted
\* while shutting_down_ was set is the Finalize of RemoveAllTasks, and no
\* worker and no caller of Wait holds such a task.
C15_Original ==
  /\ [][\A t \in added_late :
          log'[t] # log[t] => (life = "finalizing" /\ rtask = t /\ log'[t] = FinalizeOnly)]_vars
  /\ [](\A t \in added_late :
          (\A w \in Workers : wtask[w] # t) /\ (\A c \in Callers : ctask[c] # t))

\* C15 (amended): a task submitted while shutting_down_ was set is taken
\* by a worker only after CreateThreads has cleared the flag and by a
\* caller of Wait(do_work = true) only on a started pool; it is finalized
\* at most once, after Run if some thread took it, and has been finalized
\* when the pool is destroyed; inside ~ThreadPool no thread takes a queued
\* task, and the drain finalizes every one of them without running it.
C15_LateTaskFinalizedOnce ==
  /\ [][\A w \in Workers : (Dequeues(w) /\ wtask'[w] \in added_late) => ~shutting_down_]_vars
  /\ [][\A c \in Callers :
          (TryGetTaskReturns(c) /\ ctask'[c] \in added_late) => started_]_vars
  /\ [](\A t \in added_late : log[t] \in {<<>>, <<"run">>})
  /\ [][\A t \in added_late \ added_late' :
          log'[t] \in {RunThenFinalize, FinalizeOnly}]_vars
  /\ [](life = "destroyed" => added_late = {})
  /\ [][in_dtor =>
          \A t \in TaskIds : (t \in Queued \/ rtask = t) =>
            /\ log'[t] \in {<<>>, FinalizeOnly}
            /\ \A w \in Workers : wtask'[w] # t
            /\ \A c \in Callers : ctask'[c] # t]_vars

\* Inside ~ThreadPool, RemoveAllTasks has popped a task that was submitted
\* after DeleteThreads set shutting_down_ and is about to finalize it; no
\* call was made on it yet.
C15_Witness ==
  /\ in_dtor /\ shutting_down_ /\ life = "finalizing"
  /\ rtask \in added_late /\ log[rtask] = <<>>
  /\ threads_ = {}

\* ---------------------------------------------------------------- teardown
\* The pool through its whole life, teardown, destruction and re-creation
\* included, with the cap left as constructed and no CHECK failure.  Worker
\* threads, callers inside Wait and the owning thread inside DeleteThreads
\* or ~ThreadPool are scheduled fairly and every task's Run returns; the
\* clients' calls are under no obligation.
WorkerThread(w) == WorkerStep(w) \/ WorkerDetach(w)

WaitStep(c) == WaitTryGetTask(c) \/ WaitRun(c) \/ WaitFinalize(c) \/ WaitCheck(c)

OwnerStep == JoinThreads \/ RemoveAllTasksPop \/ RemoveAllTasksFinalize

NextTeardown ==
  \/ AddTask
  \/ StartWorkers
  \/ StopWorkers
  \/ threads_ = {} /\ CreateThreads
  \/ \E dtor \in BOOLEAN : DeleteThreads(dtor)
  \/ OwnerStep
  \/ \E w \in Workers : WorkerThread(w)
  \/ \E c \in Callers, d \in BOOLEAN : (d => ~create_peers_) /\ WaitCall(c, d)
  \/ \E c \in Callers : WaitStep(c)
  \/ \E c \in Callers : WaitReturn(c)

TeardownFairness ==
  /\ \A w \in Workers : WF_vars(WorkerThread(w))
  /\ \A c \in Callers : WF_vars(WaitStep(c))
  /\ WF_vars(OwnerStep)

SpecTeardown == Init /\ [][NextTeardown]_vars /\ TeardownFairness

\* Worker w leaves its fetch-execute loop in this step.
LeavesLoop(w) == wpc[w] # "detach" /\ wpc'[w] = "detach"

NoneBlockedInShutdown ==
  shutting_down_ =>
    /\ \A w \in Workers : wpc[w] # "blocked"
    /\ \A c \in Callers : cpc[c] # "blocked"

\* C13 as claimed: after DeleteThreads no worker and no caller of Wait is
\* left blocked, every worker exits and the join completes, and every
\* caller of Wait that DeleteThreads woke returns.
C13_Original ==
  /\ []NoneBlockedInShutdown
  /\ (life = "joining") ~> (life # "joining" /\ threads_ = {})
  /\ \A c \in Callers : (shutting_down_ /\ cpc[c] = "woken") ~> (cpc[c] = "returned")

\* C13 (amended): after DeleteThreads no worker and no caller of Wait is
\* left blocked, every worker exits and the join completes, and every
\* caller of Wait that DeleteThreads woke returns unless CreateThreads
\* clears shutting_down_ before the caller has re-checked it.
C13_DeleteThreadsReleases ==
  /\ []NoneBlockedInShutdown
  /\ (life = "joining") ~> (life # "joining" /\ threads_ = {})
  /\ \A c \in Callers :
       (shutting_down_ /\ cpc[c] = "woken") ~> (cpc[c] = "returned" \/ ~shutting_down_)

\* DeleteThreads has just broadcast: a worker that was blocked in GetTask
\* and a caller that was blocked in Wait are woken, another worker is
\* inside Run, and the join is pending.
C13_Witness ==
  /\ shutting_down_ /\ life = "joining"
  /\ \E w \in Workers : wpc[w] = "woken"
  /\ \E w \in Workers : wpc[w] = "run"
  /\ \E c \in Callers : cpc[c] = "woken"


\* ---------------------------------------------------------------- creation
\* The pool from its construction on, with no teardown: CreateThreads, the
\* workers, submissions and StartWorkers, and callers of
\* WaitForWorkersToBeCreated at any moment.  Worker threads and callers
\* inside the barrier's Increment are scheduled fairly.
NextCreate ==
  \/ AddTask
  \/ StartWorkers
  \/ threads_ = {} /\ CreateThreads
  \/ \E w \in Workers : WorkerStep(w)
  \/ \E c \in Callers : WaitForWorkersToBeCreated(c)
  \/ \E c \in Callers : WaitForWorkersResume(c)
  \/ \E c \in Callers : WaitForWorkersReturn(c)

CreateFairness ==
  /\ \A w \in Workers : WF_vars(WorkerStep(w))
  /\ \A c \in Callers : WF_vars(WaitForWorkersResume(c))

SpecCreate == Init /\ [][NextCreate]_vars /\ CreateFairness

\* The workers of the roster that have not yet called Pass.
NotPassed == {w \in threads_ : wpc[w] \in {"attach", "pass"}}

\* Caller c returns from WaitForWorkersToBeCreated in this step.
CreationWaitReturns(c) == crpc[c] # "returned" /\ crpc'[c] = "returned"

\* C16: the count of creation_barier_ is the number of workers of the
\* roster that have not yet called Pass; WaitForWorkersToBeCreated returns
\* only when every worker of the roster has called Pass, returns at once
\* when it is called in such a state (a roster of size 0 included), and a
\* caller that blocked eventually returns.
C16_WaitForWorkersCreated ==
  /\ [](creation_barier_ = Cardinality(NotPassed))
  /\ [][\A c \in Callers : CreationWaitReturns(c) =>
          /\ creation_barier_' = 0
          /\ \A w \in threads_' : wpc'[w] \notin {"attach", "pass"}]_vars
  /\ [][\A c \in Callers : (crpc[c] = "idle" /\ crpc'[c] # "idle") =>
          (crpc'[c] = "returned" <=> NotPassed = {})]_vars
  /\ \A c \in Callers : (crpc[c] \in {"blocked", "woken"}) ~> (crpc[c] = "returned")

\* A caller that blocked in WaitForWorkersToBeCreated between the two
\* workers' calls of Pass has been woken by the second.
C16_Witness ==
  /\ GetThreadCount = 2 /\ creation_barier_ = 0 /\ NotPassed = {}
  /\ \E c \in Callers : crpc[c] = "woken"


\* ------------------------------------------------------------- the Barrier
\* A Barrier used on its own, as barrier_test.cc uses it, by parties that
\* are threads of any kind.  btest says how:
\*   "CheckWait"  Barrier(bparam), and bparam parties that call Wait once;
\*   "CheckPass"  Barrier(0), bparam calls of Pass by other threads and one
\*                party that calls Increment(bparam);
\*   "Sleep"      Barrier(0) and one party that calls Increment(1, timeout)
\*                again and again, then Init(0);
\*   "Free"       Barrier(bparam) and parties that call any operation.
\* The pool plays no part: its variables stay as constructed.
BarrierTests == {"CheckWait", "CheckPass", "Sleep", "Free"}

Deltas == -MaxCount..MaxCount

InitBarrier ==
  /\ PoolInit
  /\ max_active_workers_ = 0
  /\ create_peers_ = FALSE
  /\ btest \in BarrierTests
  /\ bparam \in CASE btest = "CheckWait" -> 1..MaxParties
                 [] btest = "CheckPass" -> 0..MaxCount
                 [] btest = "Sleep" -> {0}
                 [] OTHER -> 0..1
  /\ count_ = IF btest \in {"CheckWait", "Free"} THEN bparam ELSE 0
  /\ bpc = [p \in Parties |-> "idle"]
  /\ pass_calls = 0
  /\ timed_calls = 0
  /\ init_calls = 0

InRange(count) == -MaxCount <= count /\ count <= MaxCount

\* The positions of the parties after party p has applied its delta in a
\* blocking operation that left count; where is "blocked" or "timed".
BarrierEnter(p, count, where) ==
  [BarrierWake(count, bpc) EXCEPT ![p] = IF BarrierBlocks(count) THEN where ELSE "returned"]

\* Barrier::Increment(self, delta) that never wakes the blocked parties.
BarrierIncrementCall_NoWake(p, delta) ==
  /\ ~aborted /\ bpc[p] = "idle"
  /\ \/ btest = "CheckPass" /\ p = 1 /\ delta = bparam
     \/ btest = "Free" /\ InRange(count_ + delta)
  /\ count_' = BarrierIncrement(count_, delta)
  /\ bpc' = [bpc EXCEPT ![p] =
              IF BarrierBlocks(BarrierIncrement(count_, delta)) THEN "blocked" ELSE "returned"]
  /\ UNCHANGED <<btest, bparam, pass_calls, timed_calls, init_calls>>
  /\ UNCHANGED <<poolVars, threads_, creation_barier_, aborted, workerVars,
                 callerVars, ownerVars, next_task, log, worker_ran, added_late,
                 creationVars, create_peers_>>

\* Barrier::Increment(self, delta): the delta is applied, the blocked
\* parties are woken if the count is zero, and the caller returns or blocks.
BarrierIncrementCall(p, delta) ==
  /\ ~aborted /\ bpc[p] = "idle"
  /\ \/ btest = "CheckPass" /\ p = 1 /\ delta = bparam
     \/ btest = "Free" /\ InRange(count_ + delta)
  /\ count_' = BarrierIncrement(count_, delta)
  /\ bpc' = BarrierEnter(p, BarrierIncrement(count_, delta), "blocked")
  /\ UNCHANGED <<btest, bparam, pass_calls, timed_calls, init_calls>>
  /\ UNCHANGED <<poolVars, threads_, creation_barier_, aborted, workerVars,
                 callerVars, ownerVars, next_task, log, worker_ran, added_late,
                 creationVars, create_peers_>>

\* Barrier::Wait(self) blocking the caller whatever the count is.
BarrierWaitCall_AlwaysBlocks(p) ==
  /\ ~aborted /\ bpc[p] = "idle"
  /\ \/ btest = "CheckWait" /\ p <= bparam
     \/ btest = "Free" /\ InRange(count_ - 1)
  /\ count_' = BarrierIncrement(count_, -1)
  /\ bpc' = [BarrierWake(BarrierIncrement(count_, -1), bpc) EXCEPT ![p] = "blocked"]
  /\ UNCHANGED <<btest, bparam, pass_calls, timed_calls, init_calls>>
  /\ UNCHANGED <<poolVars, threads_, creation_barier_, aborted, workerVars,
                 callerVars, ownerVars, next_task, log, worker_ran, added_late,
                 creationVars, create_peers_>>

\* Barrier::Wait(self): Increment(self, -1).
BarrierWaitCall(p) ==
  /\ ~aborted /\ bpc[p] = "idle"
  /\ \/ btest = "CheckWait" /\ p <= bparam
     \/ btest = "Free" /\ InRange(count_ - 1)
  /\ count_' = BarrierIncrement(count_, -1)
  /\ bpc' = BarrierEnter(p, BarrierIncrement(count_, -1), "blocked")
  /\ UNCHANGED <<btest, bparam, pass_calls, timed_calls, init_calls>>
  /\ UNCHANGED <<poolVars, threads_, creation_barier_, aborted, workerVars,
                 callerVars, ownerVars, next_task, log, worker_ran, added_late,
                 creationVars, create_peers_>>

\* Barrier::Pass(self) that never wakes the blocked parties.
BarrierPassCall_NoWake ==
  /\ ~aborted
  /\ \/ btest = "CheckPass" /\ pass_calls < bparam
     \/ btest = "Free" /\ InRange(count_ - 1)
  /\ count_' = BarrierPass(count_)
  /\ pass_calls' = IF btest = "CheckPass" THEN pass_calls + 1 ELSE pass_calls
  /\ UNCHANGED <<bpc, btest, bparam, timed_calls, init_calls>>
  /\ UNCHANGED <<poolVars, threads_, creation_barier_, aborted, workerVars,
                 callerVars, ownerVars, next_task, log, worker_ran, added_late,
                 creationVars, create_peers_>>

\* Barrier::Pass(self), by a thread that is not one of the parties: the
\* count is decremented, the blocked parties are woken if it is zero, and
\* the caller goes on.
BarrierPassCall ==
  /\ ~aborted
  /\ \/ btest = "CheckPass" /\ pass_calls < bparam
     \/ btest = "Free" /\ InRange(count_ - 1)
  /\ count_' = BarrierPass(count_)
  /\ bpc' = BarrierWake(BarrierPass(count_), bpc)
  /\ pass_calls' = IF btest = "CheckPass" THEN pass_calls + 1 ELSE pass_calls
  /\ UNCHANGED <<btest, bparam, timed_calls, init_calls>>
  /\ UNCHANGED <<poolVars, threads_, creation_barier_, aborted, workerVars,
                 callerVars, ownerVars, next_task, log, worker_ran, added_late,
                 creationVars, create_peers_>>

\* Barrier::Increment(self, delta, timeout_ms): as Increment, but the caller
\* blocks in a timed wait.
BarrierTimedIncrement(p, delta) ==
  /\ ~aborted /\ bpc[p] = "idle"
  /\ \/ btest = "Sleep" /\ p = 1 /\ delta = 1 /\ timed_calls < MaxCount
     \/ btest = "Free" /\ InRange(count_ + delta)
  /\ count_' = BarrierIncrement(count_, delta)
  /\ bpc' = BarrierEnter(p, BarrierIncrement(count_, delta), "timed")
  /\ timed_calls' = IF btest = "Sleep" THEN timed_calls + 1 ELSE timed_calls
  /\ UNCHANGED <<btest, bparam, pass_calls, init_calls>>
  /\ UNCHANGED <<poolVars, threads_, creation_barier_, aborted, workerVars,
                 callerVars, ownerVars, next_task, log, worker_ran, added_late,
                 creationVars, create_peers_>>

\* A blocking operation resumes after a wake-up and tests the count again.
BarrierResume(p) ==
  /\ ~aborted /\ bpc[p] = "woken"
  /\ bpc' = [bpc EXCEPT ![p] = IF BarrierBlocks(count_) THEN "blocked" ELSE "returned"]
  /\ UNCHANGED <<count_, btest, bparam, pass_calls, timed_calls, init_calls>>
  /\ UNCHANGED <<poolVars, threads_, creation_barier_, aborted, workerVars,
                 callerVars, ownerVars, next_task, log, worker_ran, added_late,
                 creationVars, create_peers_>>

\* A timed Increment resumes after a wake-up and tests the count again.
BarrierTimedResume(p) ==
  /\ ~aborted /\ bpc[p] = "timed_woken"
  /\ bpc' = [bpc EXCEPT ![p] = IF BarrierBlocks(count_) THEN "timed" ELSE "returned"]
  /\ UNCHANGED <<count_, btest, bparam, pass_calls, timed_calls, init_calls>>
  /\ UNCHANGED <<poolVars, threads_, creation_barier_, aborted, workerVars,
                 callerVars, ownerVars, next_task, log, worker_ran, added_late,
                 creationVars, create_peers_>>

\* The timeout of a timed Increment taking the delta back.
BarrierTimeout_Retract(p) ==
  /\ ~aborted /\ bpc[p] = "timed"
  /\ bpc' = [bpc EXCEPT ![p] = "timed_out"]
  /\ count_' = count_ - 1
  /\ UNCHANGED <<btest, bparam, pass_calls, timed_calls, init_calls>>
  /\ UNCHANGED <<poolVars, threads_, creation_barier_, aborted, workerVars,
                 callerVars, ownerVars, next_task, log, worker_ran, added_late,
                 creationVars, create_peers_>>

\* The timeout of a timed Increment elapses before the count has reached
\* zero: the call returns the timed-out indicator.
BarrierTimeout(p) ==
  /\ ~aborted /\ bpc[p] = "timed"
  /\ bpc' = [bpc EXCEPT ![p] = "timed_out"]
  /\ UNCHANGED <<count_, btest, bparam, pass_calls, timed_calls, init_calls>>
  /\ UNCHANGED <<poolVars, threads_, creation_barier_, aborted, workerVars,
                 callerVars, ownerVars, next_task, log, worker_ran, added_late,
                 creationVars, create_peers_>>

\* The party is back from its operation and may call another.
BarrierReturn(p) ==
  /\ ~aborted /\ bpc[p] \in {"returned", "timed_out"}
  /\ btest \in {"Sleep", "Free"}
  /\ bpc' = [bpc EXCEPT ![p] = "idle"]
  /\ UNCHANGED <<count_, btest, bparam, pass_calls, timed_calls, init_calls>>
  /\ UNCHANGED <<poolVars, threads_, creation_barier_, aborted, workerVars,
                 callerVars, ownerVars, next_task, log, worker_ran, added_late,
                 creationVars, create_peers_>>

\* Barrier::Init(self, count) that re-arms the barrier under the parties
\* blocked on it.
BarrierInitCall_Silent(count) ==
  /\ ~aborted
  /\ init_calls < MaxRounds
  /\ \/ btest = "Sleep" /\ count = 0 /\ bpc[1] = "idle"
     \/ btest = "Free"
  /\ count_' = BarrierInit(count)
  /\ bpc' = BarrierWake(BarrierInit(count), bpc)
  /\ pass_calls' = 0
  /\ timed_calls' = 0
  /\ init_calls' = init_calls + 1
  /\ UNCHANGED <<btest, bparam>>
  /\ UNCHANGED <<poolVars, threads_, creation_barier_, aborted, workerVars,
                 callerVars, ownerVars, next_task, log, worker_ran, added_late,
                 creationVars, create_peers_>>

\* Barrier::Init(self, count): fatal while a party is blocked on the
\* barrier, else the barrier is re-armed.
BarrierInitCall(count) ==
  /\ ~aborted
  /\ init_calls < MaxRounds
  /\ \/ btest = "Sleep" /\ count = 0 /\ bpc[1] = "idle"
     \/ btest = "Free"
  /\ IF \E p \in Parties : bpc[p] \in {"blocked", "timed"}
       THEN /\ aborted' = TRUE
            /\ UNCHANGED <<count_, bpc, pass_calls, timed_calls, init_calls>>
       ELSE /\ aborted' = aborted
            /\ count_' = BarrierInit(count)
            /\ bpc' = BarrierWake(BarrierInit(count), bpc)
            /\ pass_calls' = 0
            /\ timed_calls' = 0
            /\ init_calls' = init_calls + 1
  /\ UNCHANGED <<btest, bparam>>
  /\ UNCHANGED <<poolVars, threads_, creation_barier_, workerVars, callerVars,
                 ownerVars, next_task, log, worker_ran, added_late, creationVars, create_peers_>>

NextBarrier ==
  \/ \E p \in Parties : BarrierWaitCall(p)
  \/ BarrierPassCall
  \/ \E p \in Parties, delta \in Deltas : BarrierIncrementCall(p, delta)
  \/ \E p \in Parties, delta \in -1..1 : BarrierTimedIncrement(p, delta)
  \/ \E p \in Parties : BarrierResume(p)
  \/ \E p \in Parties : BarrierTimedResume(p)
  \/ \E p \in Parties : BarrierTimeout(p)
  \/ \E p \in Parties : BarrierReturn(p)
  \/ \E count \in 0..2 : BarrierInitCall(count)

\* A woken party is scheduled, and time passes for a party in a timed wait.
BarrierFairness ==
  \A p \in Parties :
    /\ WF_vars(BarrierResume(p))
    /\ WF_vars(BarrierTimedResume(p))
    /\ WF_vars(BarrierTimeout(p))

SpecBarrier == InitBarrier /\ [][NextBarrier]_vars /\ BarrierFairness

\* The parties that have called their operation.
Called == {p \in Parties : bpc[p] # "idle"}

\* C17: on a Barrier(N) used by N parties that each call Wait once, the
\* count is N less the calls made, no party has returned from Wait while
\* fewer than N calls have been made, and once the N-th call has been made
\* every party eventually returns.
C17_Rendezvous ==
  /\ [](btest = "CheckWait" =>
         /\ count_ = bparam - Cardinality(Called)
         /\ (\E p \in Parties : bpc[p] = "returned") => Cardinality(Called) = bparam)
  /\ (btest = "CheckWait" /\ Cardinality(Called) = bparam)
       ~> (\A p \in 1..bparam : bpc[p] = "returned")

\* On a Barrier(3), the third call of Wait has returned at once and has
\* woken the two parties that were blocked.
C17_Witness ==
  /\ btest = "CheckWait" /\ bparam = 3 /\ count_ = 0
  /\ Cardinality({p \in Parties : bpc[p] = "woken"}) = 2
  /\ Cardinality({p \in Parties : bpc[p] = "returned"}) = 1

\* C18: on a Barrier(0) with K calls of Pass by other threads and one party
\* calling Increment(K), the count is K (once Increment is called) less
\* the calls of Pass made, Increment has returned only if all K calls of
\* Pass have been made, and once they have and Increment is called, it
\* eventually returns.
C18_PassThrough ==
  /\ [](btest = "CheckPass" =>
         /\ count_ = (IF bpc[1] = "idle" THEN 0 ELSE bparam) - pass_calls
         /\ bpc[1] = "returned" => pass_calls = bparam)
  /\ (btest = "CheckPass" /\ bpc[1] # "idle" /\ pass_calls = bparam) ~> (bpc[1] = "returned")

\* Increment(3) was called between the first and the last call of Pass,
\* blocked, and has been woken by the last one.
C18_Witness ==
  /\ btest = "CheckPass" /\ bparam = 3 /\ pass_calls = 3 /\ count_ = 0
  /\ bpc[1] = "woken"

\* Party p calls a timed Increment in this step of the use "Sleep".
TimedCall(p) == bpc[p] = "idle" /\ timed_calls' = timed_calls + 1 /\ bpc'[p] # "idle"

\* C19: the time-out of a timed Increment returns the timed-out indicator
\* and leaves the count as the call's delta made it; on a Barrier(0) whose
\* only use is Increment(1, timeout), every call raises the count by 1 and
\* times out, none returns otherwise, and the count is the number of calls
\* made since Init, so not zero until Init is called.
C19_TimedIncrement ==
  /\ [][\A p \in Parties : (bpc[p] = "timed" /\ bpc'[p] = "timed_out") => count_' = count_]_vars
  /\ [][\A p \in Parties : (btest = "Sleep" /\ TimedCall(p)) =>
          (count_' = count_ + 1 /\ bpc'[p] = "timed")]_vars
  /\ [](btest = "Sleep" =>
         /\ count_ = timed_calls
         /\ \A p \in Parties : bpc[p] \in {"idle", "timed", "timed_out"})
  /\ [][(btest = "Sleep" /\ count_ # 0 /\ count_' = 0) => timed_calls' = 0]_vars
  /\ \A p \in Parties : (btest = "Sleep" /\ bpc[p] = "timed") ~> (bpc[p] = "timed_out")

\* The second Increment(1, timeout) on a Barrier(0) has timed out: the
\* count is 2.
C19_Witness ==
  /\ btest = "Sleep" /\ bpc[1] = "timed_out" /\ count_ = 2 /\ timed_calls = 2

\* C20: while the count is zero no party is blocked on the barrier; a
\* blocked party is released only by a step that brings the count to zero,
\* or, in a timed Increment, by its time-out; and a woken party goes on to
\* test the count again, unless a fatal Init has ended the process.
C20_ZeroWakesAll ==
  /\ [](count_ = 0 => \A p \in Parties : bpc[p] \notin {"blocked", "timed"})
  /\ [][\A p \in Parties :
          /\ (bpc[p] = "blocked" /\ bpc'[p] # "blocked") =>
               (bpc'[p] = "woken" /\ count_ # 0 /\ count_' = 0)
          /\ (bpc[p] = "timed" /\ bpc'[p] # "timed") =>
               \/ bpc'[p] = "timed_out"
               \/ (bpc'[p] = "timed_woken" /\ count_ # 0 /\ count_' = 0)]_vars
  /\ \A p \in Parties :
       (bpc[p] \in {"woken", "timed_woken"})
         ~> (bpc[p] \in {"returned", "blocked", "timed", "timed_out"} \/ aborted)

\* A call of Increment with a positive delta has brought a negative count
\* to zero and has woken a party blocked in Wait and a party blocked in a
\* timed Increment.
C20_Witness ==
  /\ btest = "Free" /\ count_ = 0
  /\ \E p \in Parties : bpc[p] = "woken"
  /\ \E p \in Parties : bpc[p] = "timed_woken"
  /\ \E p \in Parties : bpc[p] = "returned"

\* The parties blocked on the barrier.
BlockedParties == {p \in Parties : bpc[p] \in {"blocked", "timed"}}

FreshBarrier(count) ==
  /\ count_ = count /\ pass_calls = 0 /\ timed_calls = 0
  /\ \A p \in Parties : bpc[p] = "idle"

\* C22: a call of Init(count) while no party is blocked sets the count to
\* count whatever it was, resets the barrier's counters, blocks and ends
\* nothing; when no party is inside an operation, it leaves the barrier
\* in the state of a Barrier(count) that no party has called yet.
C22_InitRearms ==
  /\ [][\A count \in 0..2 :
          (BarrierInitCall(count) /\ BlockedParties = {}) =>
            /\ count_' = count /\ pass_calls' = 0 /\ timed_calls' = 0
            /\ ~aborted' /\ bpc' = bpc]_vars
  /\ [][\A count \in 0..2 :
          (BarrierInitCall(count) /\ \A p \in Parties : bpc[p] = "idle") =>
            FreshBarrier(count)']_vars

\* After timed-out increments and Init(0), the next timed Increment has
\* timed out and has left the count at one, as on a Barrier(0).
C22_Witness ==
  /\ btest = "Sleep" /\ init_calls = 1 /\ timed_calls = 1 /\ count_ = 1
  /\ bpc[1] = "timed_out"

\* ------------------------------------- claims on the roster and the cap
\* The workers inside the loop of ThreadPoolWorker::Run.
LiveWorkers == {w \in Workers : wpc[w] \notin {"none", "detach", "exited"}}

\* C23: a worker leaves GetTask without a task, and so its loop, only
\* while shutting_down_ is set; while shutting_down_ is clear every worker
\* of the roster is inside its loop, whether the pool is started or
\* stopped, the queue empty or not, the cap saturated or not.
C23_WorkersLeaveOnlyOnShutdown ==
  /\ [][\A w \in Workers : LeavesLoop(w) => (shutting_down_ /\ shutting_down_')]_vars
  /\ [](~shutting_down_ => (LiveWorkers = threads_ /\ Cardinality(LiveWorkers) = GetThreadCount))

\* A pool of two workers that ran a task was stopped and its cap set to
\* zero while a task is queued: both workers are blocked inside GetTask.
C23_Witness ==
  /\ ~shutting_down_ /\ ~started_ /\ worker_ran # <<>> /\ tasks_ # <<>>
  /\ max_active_workers_ = 0 /\ GetThreadCount = 2
  /\ \A w \in threads_ : wpc[w] = "blocked"

\* C24 as claimed: max_active_workers_ is at most the size of the roster
\* in every reachable state.
C24_Original == max_active_workers_ <= GetThreadCount

\* C24 (amended): max_active_workers_ is at most the size of the roster
\* whenever the roster is not empty, and equals it when CreateThreads has
\* just filled the roster; while the roster is empty it is between zero
\* and the size the pool was constructed with.
C24_CapWithinRoster ==
  /\ [](threads_ # {} => max_active_workers_ <= GetThreadCount)
  /\ [](max_active_workers_ \in 0..MaxThreads)
  /\ [][(threads_ = {} /\ threads_' # {}) => max_active_workers_' = Cardinality(threads_')]_vars

\* DeleteThreads has set shutting_down_ on a pool of two workers whose cap
\* was lowered to one, after a worker ran a task.
C24_Witness ==
  /\ GetThreadCount = 2 /\ max_active_workers_ = 1 /\ life = "joining"
  /\ worker_ran # <<>>

\* C25: SetMaxActiveWorkers(m) with m above the size of the roster ends the
\* process and leaves max_active_workers_ as it was; with m at most the
\* size of the roster it sets max_active_workers_ to m; and
\* max_active_workers_ changes only to a value within the roster, in a
\* step that does not end the process.
C25_SetMaxChecked ==
  /\ [][\A m \in 0..MaxThreads : SetMaxActiveWorkers(m) =>
          IF m > GetThreadCount
            THEN aborted' /\ max_active_workers_' = max_active_workers_
            ELSE ~aborted' /\ max_active_workers_' = m]_vars
  /\ [][max_active_workers_' # max_active_workers_ =>
          (max_active_workers_' <= GetThreadCount /\ ~aborted')]_vars

\* SetMaxActiveWorkers was called with a value above zero on a pool whose
\* roster is empty, and no Wait(do_work = true): the process has ended and
\* the cap is still one.
C25_Witness ==
  /\ aborted /\ threads_ = {} /\ max_active_workers_ = 1 /\ life = "idle"
  /\ \A c \in Callers : ~cdo_work[c]

\* The workers counted in waiting_count_: those waiting on
\* task_queue_condition_, woken or not.
WaitingWorkers == {w \in Workers : wpc[w] \in {"blocked", "woken"}}

\* C26: waiting_count_ is at least zero and at most the size of the
\* roster in every reachable state, and is the number of workers waiting
\* inside GetTask.
C26_WaitingCountWithinRoster ==
  /\ 0 <= waiting_count_ /\ waiting_count_ <= GetThreadCount
  /\ waiting_count_ = Cardinality(WaitingWorkers)
  /\ WaitingWorkers \subseteq threads_

\* Both workers of a started pool are counted as waiting while one of
\* them has been signalled for a queued task and has not yet resumed.
C26_Witness ==
  /\ waiting_count_ = 2 /\ GetThreadCount = 2 /\ started_ /\ tasks_ # <<>>
  /\ \E w \in Workers : wpc[w] = "woken"
  /\ life = "idle"

InRemoveAllTasks == life \in {"removing", "finalizing"}

NextRemove ==
  \/ ~InRemoveAllTasks /\ AddTask
  \/ StartWorkers
  \/ threads_ = {} /\ CreateThreads
  \/ \E dtor \in BOOLEAN : DeleteThreads(dtor)
  \/ RemoveAllTasksCall
  \/ OwnerStep
  \/ \E w \in Workers : WorkerThread(w)
  \/ \E c \in Callers : ~create_peers_ /\ WaitCall(c, TRUE)
  \/ \E c \in Callers : WaitStep(c)
  \/ \E c \in Callers : WaitReturn(c)

\* The thread inside RemoveAllTasks is scheduled, and so are the workers
\* the destructor joins first.
RemoveFairness ==
  /\ WF_vars(OwnerStep)
  /\ \A w \in Workers : WF_vars(WorkerThread(w))

SpecRemove == Init /\ [][NextRemove]_vars /\ RemoveFairness

\* C28: each critical section of RemoveAllTasks takes the task at the
\* front of the queue, and the task is finalized, never having run, in a
\* later step that touches nothing the lock protects and before the next
\* task is taken; RemoveAllTasks returns only on an empty queue; and with
\* no AddTask while it runs, it returns.
C28_RemoveAllTasksFinalizesAll ==
  /\ [][(life = "removing" /\ life' = "finalizing") =>
          (tasks_ # <<>> /\ rtask' = Head(tasks_) /\ tasks_' = Tail(tasks_) /\ log' = log)]_vars
  /\ [][(life = "finalizing" /\ life' # "finalizing") =>
          /\ life' = "removing" /\ log[rtask] = <<>>
          /\ log' = [log EXCEPT ![rtask] = FinalizeOnly]
          /\ UNCHANGED poolVars]_vars
  /\ [](life = "finalizing" => (rtask # NoTask /\ log[rtask] = <<>> /\ rtask \notin Range(tasks_)))
  /\ [][(life = "removing" /\ life' \in {"idle", "destroyed"}) => (tasks_ = <<>> /\ tasks_' = <<>>)]_vars
  /\ InRemoveAllTasks ~> ~InRemoveAllTasks

\* RemoveAllTasks, called directly on a pool with workers, has finalized
\* the first queued task and has taken the second off the queue.
C28_Witness ==
  /\ life = "finalizing" /\ ~in_dtor /\ rtask = 2 /\ tasks_ = <<>>
  /\ log[1] = FinalizeOnly /\ log[2] = <<>> /\ threads_ # {}

\* ------------------------------------------------- claims on raising the cap
\* The started pool of SpecLive whose cap may also be zero, at construction
\* or by SetMaxActiveWorkers(0).
NextCap ==
  \/ NextLive
  \/ SetMaxActiveWorkers(0)

SpecCap == Init /\ [][NextCap]_vars /\ LiveFairness

\* C29: on a started pool with workers, a non-empty queue and a cap of one
\* or more, a worker eventually dequeues a task, unless the pool is
\* stopped or the cap is set to zero first; in particular after
\* SetMaxActiveWorkers has raised a cap of zero under which the workers
\* blocked.
C29_RaisedCapTakesEffect ==
  \A k \in 0..MaxTasks :
    (started_ /\ tasks_ # <<>> /\ threads_ # {} /\ max_active_workers_ >= 1 /\ NumDequeued = k)
      ~> (NumDequeued > k \/ ~started_ \/ max_active_workers_ = 0)

\* C30: SetMaxActiveWorkers changes nothing but max_active_workers_ (or
\* ends the process): the queue, waiting_count_, started_, shutting_down_,
\* the roster and the position and task of every worker and of every
\* caller of Wait are as before, so no task inside Run is interrupted and
\* no thread is woken; and every step that changes max_active_workers_
\* has this frame.
C30_SetMaxFrame ==
  /\ [][\A m \in 0..MaxThreads : SetMaxActiveWorkers(m) =>
          UNCHANGED <<tasks_, waiting_count_, started_, shutting_down_, threads_,
                      workerVars, callerVars, ownerVars, log, worker_ran,
                      next_task, creation_barier_>>]_vars
  /\ [][max_active_workers_' # max_active_workers_ =>
          UNCHANGED <<tasks_, waiting_count_, started_, shutting_down_, threads_,
                      workerVars, callerVars, ownerVars, log, worker_ran,
                      next_task, creation_barier_, aborted>>]_vars

\* The cap of a started pool was set to zero while both workers are inside
\* Run: both tasks are still running.
C30_Witness ==
  /\ NumRunning = 2 /\ max_active_workers_ = 0 /\ started_
  /\ \A w \in RunningWorkers : log[wtask[w]] = <<>>

\* -------------------------------------------- claims on the owner of a task
\* The places that hold task t: its positions in the queue, the workers
\* and the callers of Wait that took it, and RemoveAllTasks.
QueueSlots(t) == {i \in 1..Len(tasks_) : tasks_[i] = t}
WorkerHolders(t) == {w \in Workers : wtask[w] = t}
CallerHolders(t) == {c \in Callers : ctask[c] = t}
NumHolders(t) ==
  Cardinality(QueueSlots(t)) + Cardinality(WorkerHolders(t))
    + Cardinality(CallerHolders(t)) + (IF rtask = t THEN 1 ELSE 0)
Finalized(t) == log[t] \in {RunThenFinalize, FinalizeOnly}

\* C31: every task that was submitted and is not yet finalized is held by
\* exactly one of the queue, a worker, a caller of Wait or RemoveAllTasks,
\* and every other task by none; a task is run or finalized only by its
\* holder, and a thread that takes a task takes the front of the queue
\* off the queue.
C31_SingleOwner ==
  /\ [](\A t \in TaskIds :
          NumHolders(t) = IF t \in Submitted /\ ~Finalized(t) THEN 1 ELSE 0)
  /\ [][\A t \in TaskIds : log'[t] # log[t] =>
          \/ \E w \in Workers : wtask[w] = t /\ wpc[w] \in {"run", "finalize"}
          \/ \E c \in Callers : ctask[c] = t /\ cpc[c] \in {"run", "finalize"}
          \/ rtask = t /\ life = "finalizing"]_vars
  /\ [][\A t \in TaskIds :
          (NumHolders(t) = 1 /\ QueueSlots(t) # {} /\ QueueSlots(t)' = {}) =>
            (t = Head(tasks_) /\ tasks_' = Tail(tasks_) /\ NumHolders(t)' = 1)]_vars

\* A worker is inside Run on one task while a caller of Wait(do_work =
\* true) holds the other and RemoveAllTasks is under way.
C31_Witness ==
  /\ \E w \in Workers : wpc[w] = "run" /\ wtask[w] = 1
  /\ \E c \in Callers : cpc[c] = "run" /\ ctask[c] = 2
  /\ life = "removing"

\* ------------------------------------------------ claims on waiting_count_
\* C32: waiting_count_ is the number of workers between ++waiting_count_
\* and --waiting_count_ in GetTask; it goes up by one when a worker blocks,
\* down by one when a woken worker leaves the wait with a task or for
\* shutdown, and stays when a woken worker blocks again; a worker counted
\* holds no task; and waiting_count_ is zero when DeleteThreads has joined
\* the workers, and whenever the roster is empty.
C32_WaitingCountCountsWaiters ==
  /\ [](waiting_count_ = Cardinality(WaitingWorkers))
  /\ [](\A w \in WaitingWorkers : wtask[w] = NoTask)
  /\ [](\A w \in Workers : wtask[w] # NoTask => wpc[w] \in {"run", "finalize"})
  /\ [][\A w \in Workers :
          /\ (w \notin WaitingWorkers /\ w \in WaitingWorkers') =>
               (wpc'[w] = "blocked" /\ waiting_count_' = waiting_count_ + 1)
          /\ (w \in WaitingWorkers /\ w \notin WaitingWorkers') =>
               (wpc[w] = "woken" /\ waiting_count_' = waiting_count_ - 1)
          /\ (wpc[w] = "woken" /\ wpc'[w] = "blocked") =>
               waiting_count_' = waiting_count_]_vars
  /\ [][(life = "joining" /\ life' # "joining") =>
          (waiting_count_ = 0 /\ waiting_count_' = 0)]_vars
  /\ [](threads_ = {} => waiting_count_ = 0)

\* DeleteThreads is joining two workers that were both waiting: one has
\* left GetTask and exited, the other is woken and still counted.
C32_Witness ==
  /\ life = "joining" /\ waiting_count_ = 1
  /\ \E w \in Workers : wpc[w] = "woken"
  /\ \E w \in Workers : wpc[w] = "exited"

\* ------------------------------------------- claims on the worker's order
\* The positions a worker at position pc may take next.
WorkerSuccessors(pc) ==
  CASE pc = "none" -> {"attach"}
    [] pc = "attach" -> {"pass"}
    [] pc = "pass" -> {"get"}
    [] pc = "get" -> {"run", "blocked", "detach"}
    [] pc = "blocked" -> {"woken"}
    [] pc = "woken" -> {"run", "blocked", "detach"}
    [] pc = "run" -> {"finalize"}
    [] pc = "finalize" -> {"get"}
    [] pc = "detach" -> {"exited"}
    [] OTHER -> {"none"}

\* The workers of the roster that have not passed the creation barrier.
NotYetPassed == {w \in threads_ : wpc[w] \in {"attach", "pass"}}

\* C33: a worker goes from the attach to one Pass on the creation barrier,
\* then to GetTask; from GetTask with a task to Run, from Run to Finalize
\* of the same task, from Finalize to GetTask; from GetTask without a task
\* to the detach and the thread's end.  The creation barrier's count is
\* the number of workers that have not passed, and only a Pass lowers it,
\* by one; a task's Run and Finalize by a worker happen at the worker's
\* positions "run" and "finalize".
C33_WorkerOrder ==
  /\ [][\A w \in Workers : wpc'[w] # wpc[w] => wpc'[w] \in WorkerSuccessors(wpc[w])]_vars
  /\ [][\A w \in Workers :
          /\ (wpc[w] = "pass" /\ wpc'[w] = "get") =>
               creation_barier_' = creation_barier_ - 1
          /\ (wpc[w] = "run" /\ wpc'[w] = "finalize") =>
               (wtask'[w] = wtask[w] /\ log[wtask[w]] = <<>>
                  /\ log'[wtask[w]] = <<"run">>)
          /\ (wpc[w] = "finalize" /\ wpc'[w] = "get") =>
               (log[wtask[w]] = <<"run">> /\ log'[wtask[w]] = RunThenFinalize
                  /\ wtask'[w] = NoTask)]_vars
  /\ [][creation_barier_' < creation_barier_ =>
          \E w \in Workers : wpc[w] = "pass" /\ wpc'[w] = "get"]_vars
  /\ [](creation_barier_ = Cardinality(NotYetPassed))
  /\ [](\A w \in Workers : wpc[w] \in {"none", "attach", "pass", "detach", "exited"} =>
          wtask[w] = NoTask)

\* A worker has gone through its whole order: it ran and finalized a task
\* and its thread has ended, while DeleteThreads waits for the other
\* worker, which is at its detach.
C33_Witness ==
  /\ life = "joining" /\ creation_barier_ = 0
  /\ \E t \in Range(worker_ran) : log[t] = RunThenFinalize
  /\ \E w \in Workers : wpc[w] = "exited"
  /\ \E w \in Workers : wpc[w] = "detach"

\* ---------------------------------------------------- claims on StopWorkers
\* C34: StopWorkers clears started_ and changes nothing else: the queue,
\* waiting_count_, max_active_workers_, shutting_down_, the roster and the
\* position and task of every worker and every caller of Wait are as
\* before, so no thread is woken; every step that clears started_ has
\* this frame; and a worker inside Run or Finalize can take its next step
\* whether the pool is started or not.
C34_StopFrame ==
  /\ [][StopWorkers =>
          /\ ~started_'
          /\ UNCHANGED <<tasks_, waiting_count_, max_active_workers_, shutting_down_,
                         threads_, workerVars, callerVars, ownerVars, log,
                         worker_ran, next_task, creation_barier_, aborted>>]_vars
  /\ [][(started_ /\ ~started_') =>
          UNCHANGED <<tasks_, waiting_count_, max_active_workers_, shutting_down_,
                      threads_, workerVars, callerVars, ownerVars, log,
                      worker_ran, next_task, creation_barier_, aborted>>]_vars
  /\ [](\A w \in Workers :
          /\ (wpc[w] = "run" /\ ~aborted) => ENABLED WorkerRun(w)
          /\ (wpc[w] = "finalize" /\ ~aborted) => ENABLED WorkerFinalize(w))

\* The pool was stopped while a worker is inside Run, the other worker is
\* blocked and a task is queued.
C34_Witness ==
  /\ ~started_ /\ ~shutting_down_ /\ tasks_ # <<>>
  /\ \E w \in Workers : wpc[w] = "run" /\ log[wtask[w]] = <<>>
  /\ \E w \in Workers : wpc[w] = "blocked"

\* ------------------------------------------------ claims on Wait(do_work)
\* The callers inside the do_work loop of Wait.
Draining == {c \in Callers : cpc[c] \in {"drain", "run", "finalize"}}

\* C35: Wait(do_work = true) on a pool with create_peers_ ends the process
\* in the call itself, with the queue, the log and the caller's position
\* and task as they were, and no caller is ever inside the do_work loop
\* or holds a task on such a pool.  Without create_peers_ the caller goes
\* from TryGetTask with a task to Run, to Finalize of the same task, and
\* back to TryGetTask; it reaches Wait's test of the pool's idleness only
\* from a TryGetTask that returned no task, and blocks on
\* completion_condition_ only from that test.
C35_WaitDoWork ==
  /\ [][\A c \in Callers : (WaitCall(c, TRUE) /\ create_peers_) =>
          (aborted' /\ UNCHANGED <<tasks_, log, cpc, ctask>>)]_vars
  /\ [](create_peers_ => (Draining = {} /\ \A c \in Callers : ctask[c] = NoTask))
  /\ [][\A c \in Callers :
          /\ (cpc[c] = "drain" /\ cpc'[c] # "drain") =>
               IF TryGetTaskLocked.task # NoTask
                 THEN /\ cpc'[c] = "run" /\ ctask'[c] = Head(tasks_)
                      /\ tasks_' = Tail(tasks_)
                 ELSE cpc'[c] = "check" /\ ctask'[c] = NoTask /\ tasks_' = tasks_
          /\ (cpc[c] = "run" /\ cpc'[c] # "run") =>
               (cpc'[c] = "finalize" /\ ctask'[c] = ctask[c]
                  /\ log[ctask[c]] = <<>> /\ log'[ctask[c]] = <<"run">>)
          /\ (cpc[c] = "finalize" /\ cpc'[c] # "finalize") =>
               (cpc'[c] = "drain" /\ log'[ctask[c]] = RunThenFinalize
                  /\ ctask'[c] = NoTask)
          /\ (cdo_work'[c] /\ cpc[c] # "check" /\ cpc'[c] = "check") =>
               (cpc[c] = "drain" /\ TryGetTaskLocked.task = NoTask)
          /\ (cpc[c] # "blocked" /\ cpc'[c] = "blocked") =>
               (cpc[c] \in {"check", "woken"} /\ ctask[c] = NoTask)]_vars

\* Wait(self, true, ...) was called on a started pool with create_peers_
\* and a queued task: the process has ended, the task is still queued and
\* the caller holds none.
C35_Witness ==
  /\ aborted /\ create_peers_ /\ started_ /\ tasks_ # <<>>
  /\ \E c \in Callers : cdo_work[c] /\ cpc[c] = "idle" /\ ctask[c] = NoTask

=============================================================================
